---- MODULE Spec2Model ----
(***************************************************************************)
(* The face-identity pipeline of the photo server: the background AI       *)
(* worker (server/ai/worker.py), the online matcher and the clustering     *)
(* primitives (server/ai/face_cluster.py), the embedding serialisation     *)
(* (server/ai/face_embedder.py) and the merge / recluster / tag services   *)
(* (server/services/face_service.py) over the faces and photo_faces tables *)
(* (server/models/photo.py).                                               *)
(*                                                                         *)
(* Numbers.  An embedding is a vector of float32; the model keeps vectors  *)
(* of dimension 2 whose components are integers in units of 1/25, so a     *)
(* unit vector is one of the twenty integer points on the circle of radius *)
(* 25.  Dot products are then exact integers in units of 1/625, and the    *)
(* thresholds 0.4 and 0.6 are compared exactly.  Division by the norm      *)
(* rounds to the nearest representable unit vector (ties to the first in   *)
(* UnitDirs), as float32 division rounds to the nearest float.             *)
(***************************************************************************)
EXTENDS Integers, Sequences, FiniteSets, TLC

(* ------------------------------ bounds --------------------------------- *)
NumPhotos == 2
NumFaceIds == 4
MaxQueue == 2
MaxDet == 2
MaxThreads == 2
MaxSources == 2
MaxKnown == 2
MaxInterleaved == 1
MaxShared == 1
MaxDim == 2
MaxClock == 64
MaxTurns == 2
MaxBoxes == 2

(* ------------------------- program constants --------------------------- *)
\* worker.py: MATCH_THRESHOLD = 0.4, in tenths
MATCH_THRESHOLD == 4
\* face_cluster.py: CLUSTER_DISTANCE_THRESHOLD = 0.6, in tenths
CLUSTER_DISTANCE_THRESHOLD == 6
\* face_cluster.py: MIN_SAMPLES = 1
MIN_SAMPLES == 1

\* dialog_session.py: SESSION_TIMEOUT_SECONDS = 30
SESSION_TIMEOUT_SECONDS == 30

\* Python's None for an Optional[str]
NULL == "NULL"
\* Python's None (or b"") for an Optional[bytes] / Optional[ndarray]: both are
\* falsy, and every test the pipeline makes of them is a truth test
NoBytes == << >>

PhotoIds == 1 .. NumPhotos
\* the ids Face's default_factory can draw: f"fac_{secrets.token_hex(4)}"
FaceId(i) == "fac_" \o ToString(i)
FaceIds == { FaceId(i) : i \in 1 .. NumFaceIds }

(* --------------------------- vectors ----------------------------------- *)
\* the length of a unit vector and the value 1.0 of a dot product
UnitNorm == 5 * 5
One == UnitNorm * UnitNorm

\* the representable unit vectors, counter-clockwise from (1, 0)
UnitDirs ==
    << <<25, 0>>, <<24, 7>>, <<20, 15>>, <<15, 20>>, <<7, 24>>,
       <<0, 25>>, <<-7, 24>>, <<-15, 20>>, <<-20, 15>>, <<-24, 7>>,
       <<-25, 0>>, <<-24, -7>>, <<-20, -15>>, <<-15, -20>>, <<-7, -24>>,
       <<0, -25>>, <<7, -24>>, <<15, -20>>, <<20, -15>>, <<24, -7>> >>

UnitVectors == { UnitDirs[i] : i \in 1 .. Len(UnitDirs) }
ZeroVector == <<0, 0>>

\* np.dot(a, b) / a @ b
Dot(a, b) == a[1] * b[1] + a[2] * b[2]

RECURSIVE VecSum(_)
\* np.sum(np.stack(embeddings), axis=0): n times np.mean(..., axis=0)
VecSum(embeddings) ==
    IF embeddings = << >> THEN ZeroVector
    ELSE LET r == VecSum(Tail(embeddings))
         IN  << Head(embeddings)[1] + r[1], Head(embeddings)[2] + r[2] >>

\* v / np.linalg.norm(v) for v # 0: the representable unit vector nearest in
\* direction to v, the first of UnitDirs among equally near ones
DivideByNorm(v) ==
    LET best == CHOOSE i \in 1 .. Len(UnitDirs) :
                   /\ \A j \in 1 .. Len(UnitDirs) : Dot(v, UnitDirs[j]) <= Dot(v, UnitDirs[i])
                   /\ \A j \in 1 .. (i - 1) : Dot(v, UnitDirs[j]) < Dot(v, UnitDirs[i])
    IN  UnitDirs[best]

\* face_cluster.compute_centroid
compute_centroid(embeddings) ==
    IF Len(embeddings) = 1 THEN embeddings[1]
    ELSE LET centroid == VecSum(embeddings)
         IN  IF centroid # ZeroVector THEN DivideByNorm(centroid) ELSE centroid

(* ----------------------- embedding serialisation ----------------------- *)
Byte == 2 ^ 8

\* one float32 as its four little-endian bytes (the 32 bits of the number in
\* two's complement, low byte first)
FloatToBytes(x) ==
    LET r1 == x \div Byte
        r2 == r1 \div Byte
        r3 == r2 \div Byte
    IN  << x % Byte, r1 % Byte, r2 % Byte, r3 % Byte >>

\* a reader of the two low bytes only
BytesToHalf(b) == b[1] + Byte * b[2]

\* the float32 of four little-endian bytes
BytesToFloat(b) ==
    LET high == IF b[4] >= Byte \div 2 THEN b[4] - Byte ELSE b[4]
    IN  b[1] + Byte * (b[2] + Byte * (b[3] + Byte * high))

RECURSIVE embedding_to_bytes(_)
\* face_embedder.embedding_to_bytes: embedding.astype(np.float32).tobytes()
embedding_to_bytes(embedding) ==
    IF embedding = << >> THEN << >>
    ELSE FloatToBytes(Head(embedding)) \o embedding_to_bytes(Tail(embedding))

\* face_embedder.bytes_to_embedding: np.frombuffer(data, dtype=np.float32)
bytes_to_embedding(data) ==
    [ i \in 1 .. (Len(data) \div 4) |->
        BytesToFloat(SubSeq(data, 4 * i - 3, 4 * i)) ]

(* ---------------------------- online matcher --------------------------- *)
\* int(np.argmax(similarities)): the first index of the largest value
ArgMax(similarities) ==
    CHOOSE i \in 1 .. Len(similarities) :
        /\ \A j \in 1 .. Len(similarities) : similarities[j] <= similarities[i]
        /\ \A j \in 1 .. (i - 1) : similarities[j] < similarities[i]

\* a comparison that leaves the threshold itself out
StrictlyWithin(dist, threshold) == 10 * dist < threshold * One

\* a comparison that every distance passes
AlwaysWithin(dist, threshold) == TRUE

\* a comparison that no distance passes
NeverWithin(dist, threshold) == FALSE

\* best_dist <= threshold, with best_dist in units of 1/625 and threshold in tenths
WithinThreshold(dist, threshold) == 10 * dist <= threshold * One

\* face_cluster.find_nearest_face: (face_id | None, distance)
find_nearest_face(embedding, known_embeddings, known_face_ids, threshold) ==
    IF known_embeddings = << >> THEN [id |-> NULL, dist |-> One]
    ELSE LET similarities == [ i \in 1 .. Len(known_embeddings) |->
                                 Dot(known_embeddings[i], embedding) ]
             best_idx == ArgMax(similarities)
             best_dist == One - similarities[best_idx]
         IN  IF WithinThreshold(best_dist, threshold)
             THEN [id |-> known_face_ids[best_idx], dist |-> best_dist]
             ELSE [id |-> NULL, dist |-> best_dist]

(* -------------------- the faces and photo_faces tables ------------------ *)
\* a Face row whose photo_count is never written
FaceRowUncounted(name, embedding, photo_count) ==
    [ name |-> name, embedding |-> embedding, photo_count |-> 0 ]

\* a row that is written without its name
FaceRowUnnamed(name, embedding, photo_count) ==
    [name |-> NULL, embedding |-> embedding, photo_count |-> photo_count]

\* models/photo.py Face: one row of the faces table, keyed by id in `faces`
FaceRow(name, embedding, photo_count) ==
    [name |-> name, embedding |-> embedding, photo_count |-> photo_count]

\* models/photo.py PhotoFace: one row of photo_faces; its id is its index.  bbox
\* stands for the detection's bounding box and confidence: the index of the
\* detection in its photo
PhotoFaceRow(photo_id, face_id, bbox) ==
    [photo_id |-> photo_id, face_id |-> face_id, bbox |-> bbox]

\* a count of the links of every identity
CountAllLinks(L, face_id) == Len(L)

\* select(func.count()).select_from(PhotoFace).where(PhotoFace.face_id == face_id)
CountLinks(L, face_id) ==
    Cardinality({ i \in 1 .. Len(L) : L[i].face_id = face_id })

\* the links of a source deleted with it
DropLinks(L, src_id, target_face_id) == SelectSeq(L, LAMBDA pf : pf.face_id # src_id)

\* the links of a source left where they are
KeepLinks(L, src_id, target_face_id) == L

\* the links moved the wrong way: those of the target onto the source
MoveLinksBack(L, src_id, target_face_id) ==
    [ i \in 1 .. Len(L) |->
        IF L[i].face_id = target_face_id THEN [L[i] EXCEPT !.face_id = src_id] ELSE L[i] ]

\* every link of the table moved onto the target
MoveEveryLink(L, src_id, target_face_id) ==
    [ i \in 1 .. Len(L) |-> [L[i] EXCEPT !.face_id = target_face_id] ]

\* pf.face_id = target_face_id for every row with face_id == src_id
MoveLinks(L, src_id, target_face_id) ==
    [ i \in 1 .. Len(L) |->
        IF L[i].face_id = src_id THEN [L[i] EXCEPT !.face_id = target_face_id] ELSE L[i] ]

\* a delete that takes the unnamed faces with it
DeleteRowAndUnnamed(F, id) ==
    [ f \in { g \in (DOMAIN F) \ {id} : F[g].name # NULL } |-> F[f] ]

\* the rows of `F` without the row of id
DeleteRow(F, id) == [ f \in (DOMAIN F) \ {id} |-> F[f] ]

(* ------------------------------ merge ---------------------------------- *)
\* face_service.merge_faces, the loop over source_face_ids from position k.
\* st.deleted holds the source that session.delete has marked and no flush has
\* deleted yet: session.get returns such an object from the identity map, with
\* its attributes as loaded.  A session.get that has to read the row and the
\* select of the links flush the session first (autoflush), and the flush takes
\* the deleted object out of the identity map.
RECURSIVE MergeLoop(_, _, _, _)
MergeLoop(st, target_face_id, source_face_ids, k) ==
    IF k > Len(source_face_ids) THEN st
    ELSE LET src_id == source_face_ids[k]
             pending == src_id \in DOMAIN st.deleted
             found == pending \/ src_id \in DOMAIN st.faces
             source == IF pending THEN st.deleted[src_id] ELSE st.faces[src_id]
         IN  IF src_id = target_face_id
             THEN MergeLoop(st, target_face_id, source_face_ids, k + 1)
             ELSE IF ~found
             THEN MergeLoop([st EXCEPT !.deleted = << >>],
                            target_face_id, source_face_ids, k + 1)
             ELSE MergeLoop(
                    [ faces |-> DeleteRow(st.faces, src_id),
                      photo_faces |-> MoveLinks(st.photo_faces, src_id, target_face_id),
                      merged_count |-> st.merged_count + CountLinks(st.photo_faces, src_id),
                      all_embeddings |->
                          IF source.embedding # NoBytes
                          THEN Append(st.all_embeddings, bytes_to_embedding(source.embedding))
                          ELSE st.all_embeddings,
                      deleted |-> IF pending THEN << >> ELSE [ f \in {src_id} |-> source ] ],
                    target_face_id, source_face_ids, k + 1)

\* a merge that does not look for its target: the links of the sources are
\* moved and the sources deleted whether the target exists or not
merge_unchecked(F, L, target_face_id, source_face_ids) ==
    LET st == MergeLoop([ faces |-> F, photo_faces |-> L, merged_count |-> 0,
                          all_embeddings |-> << >>, deleted |-> << >> ],
                        target_face_id, source_face_ids, 1)
    IN  [ found |-> TRUE, faces |-> st.faces, photo_faces |-> st.photo_faces,
          merged |-> st.merged_count,
          photo_count |-> CountLinks(st.photo_faces, target_face_id) ]

\* face_service.merge_faces: the tables after the call and its result
\* (found = FALSE is the None it returns for a missing target)
merge_faces(F, L, target_face_id, source_face_ids) ==
    IF target_face_id \notin DOMAIN F
    THEN [found |-> FALSE, faces |-> F, photo_faces |-> L, merged |-> 0, photo_count |-> 0]
    ELSE LET target == F[target_face_id]
             st0 == [ faces |-> F, photo_faces |-> L, merged_count |-> 0,
                      all_embeddings |->
                          IF target.embedding # NoBytes
                          THEN << bytes_to_embedding(target.embedding) >> ELSE << >>,
                      deleted |-> << >> ]
             st == MergeLoop(st0, target_face_id, source_face_ids, 1)
             embedding == IF st.all_embeddings # << >>
                          THEN embedding_to_bytes(compute_centroid(st.all_embeddings))
                          ELSE target.embedding
             count == CountLinks(st.photo_faces, target_face_id)
         IN  [ found |-> TRUE,
               faces |-> [ st.faces EXCEPT ![target_face_id] =
                             FaceRow(target.name, embedding, count) ],
               photo_faces |-> st.photo_faces,
               merged |-> st.merged_count,
               photo_count |-> count ]

(* ----------------------------- clustering ------------------------------ *)
\* sklearn's cosine distance of two rows of X (metric="cosine"): the rows are
\* normalised first, a zero row stays zero and is at distance 1 from every row
CosineDistance(a, b) ==
    IF a = ZeroVector \/ b = ZeroVector THEN One ELSE One - Dot(a, b)

\* a neighbourhood that holds every row
EveryRow(X, eps, i) == 1 .. Len(X)

\* a neighbourhood that holds the row alone
OnlyItself(X, eps, i) == {i}

\* the eps-neighbourhood of row i, row i included
Neighbors(X, eps, i) ==
    { j \in 1 .. Len(X) : j = i \/ WithinThreshold(CosineDistance(X[i], X[j]), eps) }

\* a core sample: at least min_samples rows in its neighbourhood
IsCore(X, eps, min_samples, i) == Cardinality(Neighbors(X, eps, i)) >= min_samples

\* the depth-first expansion of a cluster from the rows in S: every unlabelled
\* row reached is taken, and only core samples are expanded
RECURSIVE Expand(_, _, _, _, _)
Expand(X, eps, min_samples, labels, S) ==
    LET more == UNION { { j \in Neighbors(X, eps, i) : labels[j] = -1 } :
                        i \in { s \in S : IsCore(X, eps, min_samples, s) } }
    IN  IF more \subseteq S THEN S
        ELSE Expand(X, eps, min_samples, labels, S \cup more)

\* DBSCAN(eps, min_samples, metric="cosine").fit_predict(X): rows are visited in
\* order, an unlabelled core sample starts the next cluster; -1 is noise
RECURSIVE DbscanLabels(_, _, _, _, _, _)
DbscanLabels(X, eps, min_samples, labels, i, label_num) ==
    IF i > Len(X) THEN labels
    ELSE IF labels[i] # -1 \/ ~IsCore(X, eps, min_samples, i)
         THEN DbscanLabels(X, eps, min_samples, labels, i + 1, label_num)
         ELSE LET members == Expand(X, eps, min_samples, labels, {i})
              IN  DbscanLabels(X, eps, min_samples,
                               [ j \in 1 .. Len(X) |->
                                   IF j \in members THEN label_num ELSE labels[j] ],
                               i + 1, label_num + 1)

\* clusters.setdefault(int(label), []).append(fid) over zip(labels, face_ids): the
\* dict as the sequence of its items in insertion order
RECURSIVE GroupByLabel(_, _, _, _)
GroupByLabel(labels, face_ids, i, clusters) ==
    IF i > Len(labels) THEN clusters
    ELSE LET at == { k \in 1 .. Len(clusters) : clusters[k].label = labels[i] }
         IN  GroupByLabel(labels, face_ids, i + 1,
               IF at = {}
               THEN Append(clusters, [label |-> labels[i], fids |-> << face_ids[i] >>])
               ELSE LET k == CHOOSE k \in at : TRUE
                    IN  [ clusters EXCEPT ![k].fids = Append(@, face_ids[i]) ])

\* face_cluster.cluster_faces; sklearn is whether scikit-learn can be imported
cluster_faces(embeddings, face_ids, sklearn) ==
    IF Len(embeddings) < 2
    THEN IF embeddings # << >> THEN << [label |-> 0, fids |-> << face_ids[1] >>] >>
         ELSE << >>
    ELSE IF ~sklearn
         THEN [ i \in 1 .. Len(face_ids) |-> [label |-> i - 1, fids |-> << face_ids[i] >>] ]
         ELSE LET labels == DbscanLabels(embeddings, CLUSTER_DISTANCE_THRESHOLD, MIN_SAMPLES,
                                         [ j \in 1 .. Len(embeddings) |-> -1 ], 1, 0)
              IN  GroupByLabel(labels, face_ids, 1, << >>)

(* ------------------------------ recluster ------------------------------ *)
\* the faces in the order they came in, not sorted
KeepOrder(F, fids) == fids

\* list.sort(key=lambda f: f.photo_count, reverse=True) on face ids: a stable
\* insertion sort, equal counts keep their order
RECURSIVE InsertByCount(_, _, _)
InsertByCount(F, sorted, fid) ==
    IF sorted = << >> THEN << fid >>
    ELSE IF F[Head(sorted)].photo_count >= F[fid].photo_count
         THEN << Head(sorted) >> \o InsertByCount(F, Tail(sorted), fid)
         ELSE << fid >> \o sorted

RECURSIVE SortByCount(_, _)
SortByCount(F, fids) ==
    IF fids = << >> THEN << >>
    ELSE InsertByCount(F, SortByCount(F, SubSeq(fids, 1, Len(fids) - 1)), fids[Len(fids)])

\* [f for f in (session.get(Face, fid) for fid in fids) if f is not None]
RECURSIVE ExistingIds(_, _)
ExistingIds(F, fids) ==
    IF fids = << >> THEN << >>
    ELSE IF Head(fids) \in DOMAIN F
         THEN << Head(fids) >> \o ExistingIds(F, Tail(fids))
         ELSE ExistingIds(F, Tail(fids))

\* face_service.recluster_faces, the loop over clusters.items() from position k.
\* st.error is the IndexError of cluster_faces_db[0] on an empty list.
RECURSIVE ReclusterLoop(_, _, _)
ReclusterLoop(st, clusters, k) ==
    IF k > Len(clusters) \/ st.error THEN st
    ELSE LET label == clusters[k].label
             cluster_fids == clusters[k].fids
         IN  IF label = -1 \/ Len(cluster_fids) <= 1
             THEN ReclusterLoop(st, clusters, k + 1)
             ELSE LET cluster_faces_db == SortByCount(st.faces, ExistingIds(st.faces, cluster_fids))
                  IN  IF cluster_faces_db = << >>
                      THEN [st EXCEPT !.error = TRUE]
                      ELSE LET target == cluster_faces_db[1]
                               sources == Tail(cluster_faces_db)
                               result == merge_faces(st.faces, st.photo_faces, target, sources)
                           IN  IF sources = << >>
                               THEN ReclusterLoop(st, clusters, k + 1)
                               ELSE ReclusterLoop(
                                      [ faces |-> result.faces,
                                        photo_faces |-> result.photo_faces,
                                        merged_total |-> st.merged_total + result.merged,
                                        targets |-> Append(st.targets, target),
                                        error |-> FALSE ],
                                      clusters, k + 1)

\* the faces with a stored embedding (select(Face).where(Face.embedding != None),
\* then "if f.embedding")
WithEmbedding(F) == { f \in DOMAIN F : F[f].embedding # NoBytes }

\* face_service.recluster_faces; rows is the order in which the select returns
\* the faces that have an embedding
recluster_faces(F, L, rows, sklearn) ==
    IF Len(rows) < 2
    THEN [ faces |-> F, photo_faces |-> L, clusters |-> Len(rows), merged |-> 0,
           groups |-> << >>, targets |-> << >>, error |-> FALSE ]
    ELSE LET embeddings == [ i \in 1 .. Len(rows) |-> bytes_to_embedding(F[rows[i]].embedding) ]
             clusters == cluster_faces(embeddings, rows, sklearn)
             st == ReclusterLoop([ faces |-> F, photo_faces |-> L, merged_total |-> 0,
                                   targets |-> << >>, error |-> FALSE ], clusters, 1)
         IN  [ faces |-> st.faces, photo_faces |-> st.photo_faces,
               clusters |-> Len(clusters), merged |-> st.merged_total,
               groups |-> clusters, targets |-> st.targets, error |-> st.error ]

(* ------------------------- the worker's photo -------------------------- *)
\* what the embedder returns for the crops of one photo: unit vectors, or None
\* (NoBytes) where inference failed
EmbedOutputs == { <<24, 7>>, <<20, 15>>, <<7, 24>>, <<-24, -7>>, <<-7, -24>> }

\* the embedder's outputs in the runs that follow the worker's threads and queue
PipelineOutputs == { <<24, 7>>, <<7, 24>> }

RECURSIVE SeqsUpTo(_, _)
\* the sequences over S of length at most n
SeqsUpTo(S, n) ==
    IF n = 0 THEN { << >> }
    ELSE LET shorter == SeqsUpTo(S, n - 1)
         IN  shorter \cup { Append(q, x) : q \in { r \in shorter : Len(r) = n - 1 }, x \in S }

\* the permutations of a finite set, as sequences
RECURSIVE Orders(_)
Orders(S) ==
    IF S = {} THEN { << >> }
    ELSE UNION { { << x >> \o q : q \in Orders(S \ {x}) } : x \in S }

\* the ids Face's default_factory can draw, up to the names of the ids not in
\* use: an id that no row has (ids are opaque random tokens, so one stands for
\* all of them), or the id of an existing row (the INSERT then fails)
TokenDraws(used) ==
    LET free == FaceIds \ used
    IN  (IF free = {} THEN {}
         ELSE { FaceId(CHOOSE i \in 1 .. NumFaceIds :
                           /\ FaceId(i) \in free
                           /\ \A j \in 1 .. (i - 1) : FaceId(j) \notin free) })
        \cup (IF used = {} THEN {} ELSE { CHOOSE f \in used : TRUE })

\* the local variable face_id before its first assignment
Unbound == "UNBOUND"

\* a session.get that finds no face
get_nothing(F, face_id) == FALSE

\* "face = session.get(Face, matched_id)" and "if face": the face is among
\* those the session holds or can load
session_get(F, face_id) == face_id \in DOMAIN F

\* a known list that a new identity is not added to
forget(known, item) == known

\* known_embeddings.append, known_ids.append: the new identity joins the lists
\* that the later faces of the photo are matched against
remember(known, item) == Append(known, item)

\* worker.AIWorker._process_photo, the body of "for det in detected" for the
\* k-th detection: the set of session states it can end in, one for each id
\* that Face()'s default_factory (secrets.token_hex) can draw
FaceStep(st, photo_id, embedding, k) ==
    IF embedding = NoBytes
    THEN { [st EXCEPT !.results = Append(@, [kind |-> "none", face_id |-> Unbound])] }
    ELSE LET m == find_nearest_face(embedding, st.known_embeddings, st.known_ids,
                                    MATCH_THRESHOLD)
         IN  IF m.id # NULL
             THEN LET present == session_get(st.faces, m.id)
                      face == st.faces[m.id]
                      embedding_bytes ==
                          IF face.embedding # NoBytes
                          THEN embedding_to_bytes(compute_centroid(
                                 << bytes_to_embedding(face.embedding), embedding >>))
                          ELSE face.embedding
                      face_id == IF present THEN m.id ELSE st.face_id
                  IN  IF face_id = Unbound
                      THEN { [st EXCEPT !.failed = TRUE] }
                      ELSE { [ st EXCEPT
                                 !.faces = IF present
                                           THEN [ @ EXCEPT ![m.id] =
                                                    FaceRow(face.name, embedding_bytes,
                                                            face.photo_count + 1) ]
                                           ELSE @,
                                 !.face_id = face_id,
                                 !.photo_faces = Append(@, PhotoFaceRow(photo_id, face_id, k)),
                                 !.results = Append(@, [kind |-> "matched", face_id |-> m.id]) ] }
             ELSE { IF new_id \in DOMAIN st.faces
                    THEN [st EXCEPT !.failed = TRUE]
                    ELSE [ st EXCEPT
                             !.faces = [ f \in (DOMAIN @) \cup {new_id} |->
                                           IF f = new_id
                                           THEN FaceRow(NULL, embedding_to_bytes(embedding), 1)
                                           ELSE @[f] ],
                             !.face_id = new_id,
                             !.known_embeddings = remember(@, embedding),
                             !.known_ids = remember(@, new_id),
                             !.photo_faces = Append(@, PhotoFaceRow(photo_id, new_id, k)),
                             !.results = Append(@, [kind |-> "created", face_id |-> new_id]) ]
                    : new_id \in TokenDraws(DOMAIN st.faces) }

\* a loop that the first face without an embedding ends
RECURSIVE FaceLoopUntilNone(_, _, _, _)
FaceLoopUntilNone(st, photo_id, detected, k) ==
    IF k > Len(detected) \/ st.failed \/ detected[k] = NoBytes THEN { st }
    ELSE UNION { FaceLoopUntilNone(nxt, photo_id, detected, k + 1) :
                 nxt \in FaceStep(st, photo_id, detected[k], k) }

\* the whole loop from the k-th detection; a failed state (an exception) ends it
RECURSIVE FaceLoop(_, _, _, _)
FaceLoop(st, photo_id, detected, k) ==
    IF k > Len(detected) \/ st.failed THEN { st }
    ELSE UNION { FaceLoop(nxt, photo_id, detected, k + 1) :
                 nxt \in FaceStep(st, photo_id, detected[k], k) }

\* a session whose flushes stay when it is closed
session_keeps_flushed(st, F, L) == [ faces |-> st.faces, photo_faces |-> st.photo_faces ]

\* the end of "with Session(engine) as session": the tables after the
\* session.commit() that the loop reaches, or, after an exception, after the
\* rollback with which the session is closed (F, L: the tables at its start)
session_end(st, F, L) ==
    IF st.failed
    THEN [ faces |-> F, photo_faces |-> L ]
    ELSE [ faces |-> st.faces, photo_faces |-> st.photo_faces ]

\* an "existing" query that finds nothing
NeverLinked(L, photo_id) == FALSE

\* _process_photo's "existing" query: photo_id has occurrence links in L
HasLinks(L, photo_id) == \E i \in 1 .. Len(L) : L[i].photo_id = photo_id

\* the states of the Photo row, its file and its image that _process_photo tests
PhotoConds == { "ok", "missing", "inactive", "video", "no_file", "corrupt" }

\* worker.AIWorker._process_photo: the outcomes of processing photo_id on the
\* tables F, L; cond is the state of the photo, detected the embedder's output
\* for each detected face, rows the order in which the known faces are read
process_photo(F, L, photo_id, cond, detected, rows) ==
    LET skip(why) == { [ faces |-> F, photo_faces |-> L, outcome |-> why,
                         detected |-> << >>, results |-> << >> ] }
    IN  IF cond \in { "missing", "inactive" } THEN skip("no_photo")
        ELSE IF cond = "video" THEN skip("video")
        ELSE IF HasLinks(L, photo_id) THEN skip("existing")
        ELSE IF cond = "no_file" THEN skip("no_file")
        ELSE IF cond = "corrupt" THEN skip("corrupt")
        ELSE IF detected = << >> THEN skip("no_faces")
        ELSE LET st0 == [ faces |-> F, photo_faces |-> L,
                          known_embeddings |->
                              [ i \in 1 .. Len(rows) |-> bytes_to_embedding(F[rows[i]].embedding) ],
                          known_ids |-> rows,
                          face_id |-> Unbound, results |-> << >>, failed |-> FALSE ]
             IN  { session_end(st, F, L) @@
                   [ outcome |-> IF st.failed THEN "failed" ELSE "committed",
                     detected |-> detected, results |-> st.results ]
                   : st \in FaceLoop(st0, photo_id, detected, 1) }

(* --------------------------- the state machine ------------------------- *)
VARIABLES
    faces,            \* the faces table: face id -> FaceRow
    photo_faces,      \* the photo_faces table: the sequence of its rows by id
    queue,            \* AIWorker._queue
    running,          \* AIWorker._running
    pc,               \* the worker threads started so far: where each one is in _run
    detector_loaded,  \* FaceDetector._session is not None
    embedder_loaded,  \* FaceEmbedder._session is not None
    lookup,           \* a call of find_nearest_face or of the serialisation from
                      \* outside the worker: its arguments and, once it has
                      \* returned, its result
    taken,            \* _run's local photo_id in each thread: the photo that
                      \* queue.get has returned and _process_photo has not ended
    sessions,         \* the database sessions that are open between two steps:
                      \* what each has read and where its handler is
    joining,          \* a call of stop() is in self._thread.join(timeout=5)
    dialog            \* the dialog manager: DialogSessionManager._sessions and the
                      \* clock that time.time() reads

vars == << faces, photo_faces, queue, running, pc, detector_loaded, embedder_loaded,
           lookup, taken, sessions, joining, dialog >>

Threads == 1 .. MaxThreads
Names == { "ann" }

\* AIWorker.available
available == detector_loaded /\ embedder_loaded

\* AIWorker.queue_size
queue_size == Len(queue)

\* no photo id: the value of "taken" in a thread that holds no photo
NoPhoto == 0
NoneTaken == [ t \in Threads |-> NoPhoto ]

\* no recluster pass between its select and the end of its loop
NoPass == [state |-> "none"]
\* no run of _process_photo between its select of the known faces and its
\* commit
NoRun == [state |-> "none"]
\* no merge request between its reads and its writes
NoMerge == [state |-> "none"]
\* the merge requests that are followed through their reads and writes
Requests == 1 .. 2
\* no session open between two steps
NoSessions == [pass |-> NoPass, run |-> NoRun, merges |-> [ r \in Requests |-> NoMerge ]]

\* the users of the dialog manager
Users == { "user1" }
\* DialogSessionManager.__init__, at the time the clock starts from
NoDialog == [ now |-> 1, sessions |-> << >> ]

\* no call of find_nearest_face from outside the worker
NoLookup == [state |-> "none"]

\* AIWorker.__init__, on empty tables
Init ==
    /\ faces = << >>
    /\ photo_faces = << >>
    /\ queue = << >>
    /\ running = FALSE
    /\ pc = [ t \in Threads |-> "idle" ]
    /\ detector_loaded = FALSE
    /\ embedder_loaded = FALSE
    /\ lookup = NoLookup
    /\ taken = NoneTaken
    /\ sessions = NoSessions
    /\ joining = FALSE
    /\ dialog = NoDialog

\* the thread slots not in use
IdleThreads == { t \in Threads : pc[t] = "idle" }

\* a start that does not look at what the two load() calls return
start_unchecked(det_ok, emb_ok) ==
    [ detector_loaded |-> detector_loaded \/ det_ok,
      embedder_loaded |-> embedder_loaded \/ emb_ok,
      running |-> TRUE,
      pc |-> IF IdleThreads # {}
             THEN LET thread == CHOOSE t \in IdleThreads : \A u \in IdleThreads : t <= u
                  IN  [pc EXCEPT ![thread] = "check"]
             ELSE pc,
      returns |-> TRUE ]

\* AIWorker.start: what it returns and what it leaves behind; det_ok and emb_ok
\* are what the two load() calls return.  The new thread takes the first slot
\* not in use (Start is not taken when MaxThreads threads are alive).
start(det_ok, emb_ok) ==
    [ detector_loaded |-> detector_loaded \/ det_ok,
      embedder_loaded |-> embedder_loaded \/ emb_ok,
      running |-> IF det_ok /\ emb_ok THEN TRUE ELSE running,
      pc |-> IF det_ok /\ emb_ok /\ IdleThreads # {}
             THEN LET thread == CHOOSE t \in IdleThreads : \A u \in IdleThreads : t <= u
                  IN  [pc EXCEPT ![thread] = "check"]
             ELSE pc,
      returns |-> det_ok /\ emb_ok ]

Start ==
    \E det_ok \in BOOLEAN, emb_ok \in BOOLEAN :
        /\ (det_ok /\ emb_ok) => IdleThreads # {}
        /\ LET after == start(det_ok, emb_ok)
           IN  /\ detector_loaded' = after.detector_loaded
               /\ embedder_loaded' = after.embedder_loaded
               /\ running' = after.running
               /\ pc' = after.pc
        /\ UNCHANGED << lookup, taken, sessions, faces, photo_faces, queue, joining, dialog >>

\* AIWorker.stop: the join waits for the thread, with a timeout, and changes nothing
Stop ==
    /\ running' = FALSE
    /\ UNCHANGED << lookup, taken, sessions, faces, photo_faces, queue, pc, detector_loaded, embedder_loaded, joining, dialog >>

\* an enqueue that does not ask whether the models are loaded
put_anyway(q, photo_ids) == q \o photo_ids

\* a queue that takes the new photo ids at its head
put_in_front(q, photo_ids) == IF available THEN photo_ids \o q ELSE q

\* the queue after enqueue(photo_id) for each id of photo_ids in turn
put_all(q, photo_ids) == IF available THEN q \o photo_ids ELSE q

\* the arguments of enqueue_batch
Batches == SeqsUpTo(PhotoIds, MaxQueue)

\* AIWorker.enqueue
Enqueue ==
    \E photo_id \in PhotoIds :
        /\ Len(put_all(queue, << photo_id >>)) <= MaxQueue
        /\ queue' = put_all(queue, << photo_id >>)
        /\ UNCHANGED << lookup, taken, sessions, faces, photo_faces, running, pc, detector_loaded, embedder_loaded, joining, dialog >>

\* AIWorker.enqueue_batch
EnqueueBatch ==
    \E photo_ids \in Batches :
        /\ Len(put_all(queue, photo_ids)) <= MaxQueue
        /\ queue' = put_all(queue, photo_ids)
        /\ UNCHANGED << lookup, taken, sessions, faces, photo_faces, running, pc, detector_loaded, embedder_loaded, joining, dialog >>

\* AIWorker._run, "while self._running": the thread goes on to the queue or ends
LoopCheck ==
    \E t \in Threads :
        /\ pc[t] = "check"
        /\ pc' = [pc EXCEPT ![t] = IF running THEN "get" ELSE "idle"]
        /\ UNCHANGED << lookup, taken, sessions, faces, photo_faces, queue, running, detector_loaded, embedder_loaded, joining, dialog >>

\* AIWorker._run, queue.get(timeout=2) raising queue.Empty
QueueEmpty ==
    \E t \in Threads :
        /\ pc[t] = "get"
        /\ queue = << >>
        /\ pc' = [pc EXCEPT ![t] = "check"]
        /\ UNCHANGED << lookup, taken, sessions, faces, photo_faces, queue, running, detector_loaded, embedder_loaded, joining, dialog >>

\* the embedder's outputs for the faces of one photo
Detections(outputs) == SeqsUpTo(outputs \cup {NoBytes}, MaxDet)
PipelineDetections == Detections(PipelineOutputs)
StoreDetections == Detections(EmbedOutputs)

\* what one run of _process_photo on photo_id meets: the state of the photo
\* and, when the run gets as far as the detector, the embedder's outputs for the
\* detected faces and the order in which the select returns the known faces
PhotoInputs(photo_id, detections) ==
    { [cond |-> c, detected |-> << >>, rows |-> << >>] : c \in PhotoConds \ {"ok"} }
    \cup IF HasLinks(photo_faces, photo_id)
         THEN { [cond |-> "ok", detected |-> << >>, rows |-> << >>] }
         ELSE { [cond |-> "ok", detected |-> d, rows |-> r] :
                d \in detections, r \in Orders(WithEmbedding(faces)) }

\* one run of _process_photo on photo_id, committed or rolled back
Ingest(photo_id, detections) ==
    \E in \in PhotoInputs(photo_id, detections) :
        \E out \in process_photo(faces, photo_faces, photo_id,
                                 in.cond, in.detected, in.rows) :
            /\ faces' = out.faces
            /\ photo_faces' = out.photo_faces

\* a _run whose thread ends with the exception of _process_photo
AfterPhotoUncaught(outcome) == IF outcome = "failed" THEN "idle" ELSE "check"

\* AIWorker._run, where the thread is after its try statement: _process_photo
\* has returned, or raised an exception that "except Exception" has caught and
\* logged; either way the thread is back at "while self._running"
AfterPhoto(outcome) == "check"

\* AIWorker._run, queue.get returning a photo id and _process_photo on it
ProcessPhoto ==
    \E t \in Threads :
        /\ pc[t] = "get"
        /\ queue # << >>
        /\ \E in \in PhotoInputs(Head(queue), PipelineDetections) :
              \E out \in process_photo(faces, photo_faces, Head(queue),
                                       in.cond, in.detected, in.rows) :
                  /\ faces' = out.faces
                  /\ photo_faces' = out.photo_faces
                  /\ pc' = [pc EXCEPT ![t] = AfterPhoto(out.outcome)]
        /\ queue' = Tail(queue)
        /\ UNCHANGED << lookup, taken, sessions, running, detector_loaded, embedder_loaded, joining, dialog >>

\* api/faces.py tag_face_endpoint -> face_service.tag_face
tag_face(F, face_id, name) ==
    IF face_id \in DOMAIN F THEN [F EXCEPT ![face_id].name = name] ELSE F

TagFace ==
    \E face_id \in FaceIds, name \in Names :
        /\ faces' = tag_face(faces, face_id, name)
        /\ UNCHANGED << lookup, taken, sessions, photo_faces, queue, running, pc, detector_loaded, embedder_loaded, joining, dialog >>

\* the face ids a request can name, up to the names of the ids that no row
\* has: the ids of the rows and one id without a row
RequestIds ==
    LET free == FaceIds \ DOMAIN faces
    IN  (DOMAIN faces) \cup
        (IF free = {} THEN {} ELSE { CHOOSE f \in free : TRUE })

\* the source lists of a merge request
SourceLists == SeqsUpTo(RequestIds, MaxSources)

\* api/faces.py merge_faces_endpoint -> face_service.merge_faces
MergeFaces ==
    \E target_face_id \in RequestIds, source_face_ids \in SourceLists :
        LET result == merge_faces(faces, photo_faces, target_face_id, source_face_ids)
        IN  /\ faces' = result.faces
            /\ photo_faces' = result.photo_faces
            /\ UNCHANGED << lookup, taken, sessions, queue, running, pc, detector_loaded, embedder_loaded, joining, dialog >>

\* the orders in which recluster's select can return the faces
RowOrders == Orders(WithEmbedding(faces))

\* api/faces.py recluster_endpoint -> face_service.recluster_faces; sklearn
\* tells whether "from sklearn.cluster import DBSCAN" succeeds
Recluster ==
    \E rows \in RowOrders, sklearn \in BOOLEAN :
        LET result == recluster_faces(faces, photo_faces, rows, sklearn)
        IN  /\ faces' = result.faces
            /\ photo_faces' = result.photo_faces
            /\ UNCHANGED << lookup, taken, sessions, queue, running, pc, detector_loaded, embedder_loaded, joining, dialog >>

Next ==
    \/ Start
    \/ Stop
    \/ Enqueue
    \/ EnqueueBatch
    \/ LoopCheck
    \/ QueueEmpty
    \/ ProcessPhoto
    \/ TagFace
    \/ MergeFaces
    \/ Recluster

Spec == Init /\ [][Next]_vars

(* ------------------- the tables under a running worker ----------------- *)
\* the worker after a successful start(), its thread waiting in queue.get
InitStore ==
    /\ faces = << >>
    /\ photo_faces = << >>
    /\ queue = << >>
    /\ running = TRUE
    /\ pc = [ t \in Threads |-> IF t = 1 THEN "get" ELSE "idle" ]
    /\ detector_loaded = TRUE
    /\ embedder_loaded = TRUE
    /\ lookup = NoLookup
    /\ taken = NoneTaken
    /\ sessions = NoSessions
    /\ joining = FALSE
    /\ dialog = NoDialog

\* enqueue(photo_id) on the empty queue and the waiting thread's next turn of
\* _run: queue.get returns photo_id, _process_photo runs on it, and the thread
\* is back in queue.get
EnqueueAndProcess ==
    \E photo_id \in PhotoIds :
        /\ available /\ running /\ queue = << >>
        /\ \E t \in Threads : pc[t] = "get"
        /\ Ingest(photo_id, StoreDetections)
        /\ UNCHANGED << lookup, taken, sessions, queue, running, pc, detector_loaded, embedder_loaded, joining, dialog >>

NextStore ==
    \/ EnqueueAndProcess
    \/ MergeFaces
    \/ Recluster

SpecStore == InitStore /\ [][NextStore]_vars

(* ------------- a recluster pass among concurrent requests -------------- *)
RECURSIVE MoveAllLinks(_, _, _)
\* the links of each source in turn moved to the target
MoveAllLinks(L, source_face_ids, target_face_id) ==
    IF source_face_ids = << >> THEN L
    ELSE MoveAllLinks(MoveLinks(L, Head(source_face_ids), target_face_id),
                      Tail(source_face_ids), target_face_id)

RECURSIVE LoadedEmbeddings(_, _)
\* bytes_to_embedding(f.embedding) of the loaded objects of ids that have one
LoadedEmbeddings(view, ids) ==
    IF ids = << >> THEN << >>
    ELSE (IF view[Head(ids)].embedding # NoBytes
          THEN << bytes_to_embedding(view[Head(ids)].embedding) >> ELSE << >>)
         \o LoadedEmbeddings(view, Tail(ids))

\* the UPDATE of a Face object loaded as `loaded` and changed to `now`: only
\* the attributes that were changed are written to the row
WriteBack(row, loaded, now) ==
    [ name |-> IF now.name # loaded.name THEN now.name ELSE row.name,
      embedding |-> IF now.embedding # loaded.embedding THEN now.embedding ELSE row.embedding,
      photo_count |-> IF now.photo_count # loaded.photo_count THEN now.photo_count
                      ELSE row.photo_count ]

\* face_service.merge_faces in the session of a recluster pass that has not
\* committed yet.  Every session.get finds its object in the identity map, as
\* the pass's select loaded it (view), also when the row is gone since; the
\* links are selected, and the rows written, in the tables as they are now.  The
\* DELETE of a row that is gone is a warning; the UPDATE of the target's row, if
\* it is gone, raises StaleDataError (failed) and the transaction is rolled back.
merge_faces_loaded(F, L, view, target_face_id, source_face_ids) ==
    LET target == view[target_face_id]
        sources == { source_face_ids[i] : i \in 1 .. Len(source_face_ids) }
        all_embeddings == LoadedEmbeddings(view, << target_face_id >> \o source_face_ids)
        links == MoveAllLinks(L, source_face_ids, target_face_id)
        embedding == IF all_embeddings # << >>
                     THEN embedding_to_bytes(compute_centroid(all_embeddings))
                     ELSE target.embedding
        now == FaceRow(target.name, embedding, CountLinks(links, target_face_id))
        remaining == [ f \in (DOMAIN F) \ sources |-> F[f] ]
    IN  IF now # target /\ target_face_id \notin DOMAIN F
        THEN [ failed |-> TRUE, faces |-> F, photo_faces |-> L, merged |-> 0 ]
        ELSE [ failed |-> FALSE,
               faces |-> IF now # target
                         THEN [ remaining EXCEPT ![target_face_id] =
                                  WriteBack(F[target_face_id], target, now) ]
                         ELSE remaining,
               photo_faces |-> links,
               merged |-> Cardinality({ i \in 1 .. Len(L) : L[i].face_id \in sources }) ]

\* the groups the loop of recluster_faces does not pass over: those of two
\* faces or more
MergeGroups(clusters) ==
    SelectSeq(clusters, LAMBDA c : c.label # -1 /\ Len(c.fids) > 1)

\* face_service.recluster_faces up to its loop: the select of the faces and
\* cluster_faces.  A pass with nothing to merge returns at once.
PassRead ==
    \E rows \in RowOrders, sklearn \in BOOLEAN :
        LET embeddings == [ i \in 1 .. Len(rows) |-> bytes_to_embedding(faces[rows[i]].embedding) ]
            groups == MergeGroups(cluster_faces(embeddings, rows, sklearn))
        IN  /\ sessions.pass.state = "none"
            /\ Len(rows) >= 2
            /\ groups # << >>
            /\ sessions' = [sessions EXCEPT !.pass =
                              [ state |-> "open", groups |-> groups, k |-> 1,
                                loaded |-> TRUE, view |-> faces, others |-> 0 ]]
            /\ UNCHANGED << lookup, taken, faces, photo_faces, queue, running, pc,
                            detector_loaded, embedder_loaded, joining, dialog >>

\* face_service.recluster_faces, one turn of its loop on a group of two faces
\* or more.  Until the pass's first commit session.get returns the objects as
\* loaded; a commit expires them, and session.get then reads the row again and
\* returns None if it is gone.  cluster_faces_db[0] on the empty list raises
\* IndexError.
PassGroup ==
    LET pass == sessions.pass
        cluster_fids == pass.groups[pass.k].fids
        cluster_faces_db == IF pass.loaded THEN SortByCount(pass.view, cluster_fids)
                            ELSE SortByCount(faces, ExistingIds(faces, cluster_fids))
        target == cluster_faces_db[1]
        sources == Tail(cluster_faces_db)
        result == IF pass.loaded
                  THEN merge_faces_loaded(faces, photo_faces, pass.view, target, sources)
                  ELSE [ failed |-> FALSE ] @@ merge_faces(faces, photo_faces, target, sources)
        raised == cluster_faces_db = << >> \/ (sources # << >> /\ result.failed)
        merged == cluster_faces_db # << >> /\ sources # << >> /\ ~result.failed
    IN  /\ pass.state = "open"
        /\ faces' = IF merged THEN result.faces ELSE faces
        /\ photo_faces' = IF merged THEN result.photo_faces ELSE photo_faces
        /\ sessions' = [sessions EXCEPT !.pass =
                          IF raised THEN [state |-> "failed"]
                          ELSE IF pass.k = Len(pass.groups) THEN [state |-> "done"]
                          ELSE [ state |-> "open", groups |-> pass.groups, k |-> pass.k + 1,
                                 others |-> pass.others,
                                 loaded |-> pass.loaded /\ ~merged,
                                 view |-> IF pass.loaded /\ ~merged THEN pass.view ELSE << >> ]]
        /\ UNCHANGED << lookup, taken, queue, running, pc, detector_loaded, embedder_loaded, joining, dialog >>

\* api/faces.py merge_faces_endpoint -> face_service.merge_faces, requested
\* and committed by another request while the pass is between two of its
\* steps; up to MaxInterleaved such requests are followed
MergeDuringPass ==
    \E target_face_id \in RequestIds, source_face_ids \in SourceLists :
        LET result == merge_faces(faces, photo_faces, target_face_id, source_face_ids)
        IN  /\ sessions.pass.state = "open"
            /\ sessions.pass.others < MaxInterleaved
            /\ faces' = result.faces
            /\ photo_faces' = result.photo_faces
            /\ sessions' = [sessions EXCEPT !.pass.others = @ + 1]
            /\ UNCHANGED << lookup, taken, queue, running, pc, detector_loaded, embedder_loaded, joining, dialog >>

\* photos are processed, then one pass is followed from its select to its
\* end, with the merges requested meanwhile
NextPass ==
    \/ (sessions.pass.state = "none" /\ EnqueueAndProcess)
    \/ MergeDuringPass
    \/ PassRead
    \/ PassGroup

SpecPass == InitStore /\ [][NextPass]_vars

(* ------------ a run of the worker among concurrent requests ------------ *)
\* worker.AIWorker._process_photo from its select of the known faces, which
\* loaded the faces as view when the links were as in links, to its commit on
\* the tables F, L as they are now.  session.get finds every known face in the
\* identity map, as loaded; the new faces and the new links are inserted, and
\* each face the run has changed is updated in the columns it has changed.  The
\* UPDATE of a row that is gone raises StaleDataError: the transaction is
\* rolled back and the exception leaves _process_photo.
process_photo_loaded(F, L, view, links, photo_id, detected, rows) ==
    { LET changed == { f \in DOMAIN view : out.faces[f] # view[f] }
          created == (DOMAIN out.faces) \ (DOMAIN view)
          added == SubSeq(out.photo_faces, Len(links) + 1, Len(out.photo_faces))
      IN  IF out.outcome # "committed"
          THEN [ faces |-> F, photo_faces |-> L, outcome |-> out.outcome ]
          ELSE IF changed \ (DOMAIN F) # {}
          THEN [ faces |-> F, photo_faces |-> L, outcome |-> "failed" ]
          ELSE [ faces |-> [ f \in (DOMAIN F) \cup created |->
                              IF f \in created THEN out.faces[f]
                              ELSE IF f \in changed
                              THEN WriteBack(F[f], view[f], out.faces[f])
                              ELSE F[f] ],
                 photo_faces |-> L \o added,
                 outcome |-> "committed" ]
      : out \in process_photo(view, links, photo_id, "ok", detected, rows) }

\* enqueue(photo_id) on the empty queue and the waiting thread's turn of _run
\* up to the select of the known faces: the photo is active, has no links, its
\* image opens and the detector has found faces in it
RunRead ==
    \E photo_id \in PhotoIds :
        /\ available /\ running /\ queue = << >>
        /\ \E t \in Threads : pc[t] = "get"
        /\ sessions.run.state = "none"
        /\ ~HasLinks(photo_faces, photo_id)
        /\ sessions' = [sessions EXCEPT !.run =
                          [ state |-> "open", photo_id |-> photo_id, view |-> faces,
                            links |-> photo_faces, others |-> 0 ]]
        /\ UNCHANGED << lookup, taken, faces, photo_faces, queue, running, pc,
                        detector_loaded, embedder_loaded, joining, dialog >>

\* api/faces.py merge_faces_endpoint -> face_service.merge_faces, requested
\* and committed by another request while the run is between its select and
\* its commit; up to MaxInterleaved requests are followed
MergeDuringRun ==
    \E target_face_id \in RequestIds, source_face_ids \in SourceLists :
        LET result == merge_faces(faces, photo_faces, target_face_id, source_face_ids)
        IN  /\ sessions.run.state = "open"
            /\ sessions.run.others < MaxInterleaved
            /\ faces' = result.faces
            /\ photo_faces' = result.photo_faces
            /\ sessions' = [sessions EXCEPT !.run.others = @ + 1]
            /\ UNCHANGED << lookup, taken, queue, running, pc, detector_loaded, embedder_loaded, joining, dialog >>

\* api/faces.py recluster_endpoint -> face_service.recluster_faces, requested
\* and completed by another request while the run is between its select and
\* its commit
ReclusterDuringRun ==
    \E rows \in RowOrders, sklearn \in BOOLEAN :
        LET result == recluster_faces(faces, photo_faces, rows, sklearn)
        IN  /\ sessions.run.state = "open"
            /\ sessions.run.others < MaxInterleaved
            /\ faces' = result.faces
            /\ photo_faces' = result.photo_faces
            /\ sessions' = [sessions EXCEPT !.run.others = @ + 1]
            /\ UNCHANGED << lookup, taken, queue, running, pc, detector_loaded, embedder_loaded, joining, dialog >>

\* the rest of the run: the embedder's outputs for the detected faces, the
\* loop over them and the commit; the thread is back in queue.get
RunCommit ==
    LET run == sessions.run
    IN  /\ run.state = "open"
        /\ \E detected \in StoreDetections \ { << >> }, rows \in Orders(WithEmbedding(run.view)) :
              \E out \in process_photo_loaded(faces, photo_faces, run.view, run.links,
                                              run.photo_id, detected, rows) :
                  /\ faces' = out.faces
                  /\ photo_faces' = out.photo_faces
        /\ sessions' = [sessions EXCEPT !.run = [state |-> "done"]]
        /\ UNCHANGED << lookup, taken, queue, running, pc, detector_loaded, embedder_loaded, joining, dialog >>

\* photos are processed, then one run is followed from its select to its
\* commit, with the requests served meanwhile
NextRun ==
    \/ (sessions.run.state = "none" /\ EnqueueAndProcess)
    \/ RunRead
    \/ MergeDuringRun
    \/ ReclusterDuringRun
    \/ RunCommit

SpecRun == InitStore /\ [][NextRun]_vars

(* ---------------------- merges that run concurrently ------------------- *)
\* face_service.merge_faces from its recount on: the writes of a call that has
\* read the faces as view and the links as links, on the tables F, L as they
\* are now.  The autoflush before the recount updates, by primary key, each
\* link the call has loaded and re-pointed, deletes the sources (the DELETE of
\* a row that is gone is a warning) and updates the target's embedding; the
\* count is taken in the tables as they are then, and written if it differs
\* from the one loaded.  The UPDATE of a target that is gone raises
\* StaleDataError and the transaction is rolled back.
merge_faces_write(F, L, view, links, target_face_id, source_face_ids) ==
    LET out == merge_faces(view, links, target_face_id, source_face_ids)
        moved == { i \in 1 .. Len(links) : out.photo_faces[i].face_id # links[i].face_id }
        deleted == (DOMAIN view) \ (DOMAIN out.faces)
        photo_faces_now == [ i \in 1 .. Len(L) |->
                               IF i \in moved
                               THEN PhotoFaceRow(L[i].photo_id, target_face_id, L[i].bbox)
                               ELSE L[i] ]
        loaded == view[target_face_id]
        now == FaceRow(loaded.name, out.faces[target_face_id].embedding,
                       CountLinks(photo_faces_now, target_face_id))
    IN  IF now # loaded /\ target_face_id \notin DOMAIN F
        THEN [ failed |-> TRUE, faces |-> F, photo_faces |-> L ]
        ELSE [ failed |-> FALSE,
               faces |-> [ f \in (DOMAIN F) \ deleted |->
                             IF f = target_face_id /\ now # loaded
                             THEN WriteBack(F[f], loaded, now) ELSE F[f] ],
               photo_faces |-> photo_faces_now ]

\* the source lists of the merge requests that are followed step by step
SharedSourceLists == SeqsUpTo(RequestIds, MaxShared)

\* api/faces.py merge_faces_endpoint -> face_service.merge_faces up to its
\* recount: the target and the sources are read and the links of the sources
\* selected.  The second request arrives while the first is between its reads
\* and its writes, and names one of its sources.
MergeRead ==
    \E r \in Requests, target_face_id \in DOMAIN faces, source_face_ids \in SharedSourceLists :
        LET merges == sessions.merges
            named == { source_face_ids[i] : i \in 1 .. Len(source_face_ids) }
            first == { merges[1].source_face_ids[i] : i \in 1 .. Len(merges[1].source_face_ids) }
        IN  /\ merges[r].state = "none"
            /\ r = 2 => /\ merges[1].state = "open"
                         /\ (named \cap first \cap DOMAIN faces) # {}
            /\ sessions' = [sessions EXCEPT !.merges[r] =
                              [ state |-> "open", target_face_id |-> target_face_id,
                                source_face_ids |-> source_face_ids,
                                view |-> faces, links |-> photo_faces ]]
            /\ UNCHANGED << lookup, taken, faces, photo_faces, queue, running, pc,
                            detector_loaded, embedder_loaded, joining, dialog >>

\* face_service.merge_faces of a request from its recount to its commit
MergeWrite ==
    \E r \in Requests :
        LET merge == sessions.merges[r]
            result == merge_faces_write(faces, photo_faces, merge.view, merge.links,
                                        merge.target_face_id, merge.source_face_ids)
        IN  /\ merge.state = "open"
            /\ faces' = result.faces
            /\ photo_faces' = result.photo_faces
            /\ sessions' = [sessions EXCEPT !.merges[r].state =
                              IF result.failed THEN "failed" ELSE "done"]
            /\ UNCHANGED << lookup, taken, queue, running, pc, detector_loaded, embedder_loaded, joining, dialog >>

\* photos are processed, then two merge requests are followed through their
\* reads and their writes
NextMerges ==
    \/ (sessions.merges[1].state = "none" /\ EnqueueAndProcess)
    \/ MergeRead
    \/ MergeWrite

SpecMerges == InitStore /\ [][NextMerges]_vars

(* ----------------------- the worker on its queue ----------------------- *)
\* the worker after a successful start() and an enqueue_batch, its thread
\* waiting in queue.get
InitDrain ==
    /\ faces = << >>
    /\ photo_faces = << >>
    /\ queue \in Batches
    /\ running = TRUE
    /\ pc = [ t \in Threads |-> IF t = 1 THEN "get" ELSE "idle" ]
    /\ detector_loaded = TRUE
    /\ embedder_loaded = TRUE
    /\ lookup = NoLookup
    /\ taken = NoneTaken
    /\ sessions = NoSessions
    /\ joining = FALSE
    /\ dialog = NoDialog

NextDrain ==
    \/ LoopCheck
    \/ QueueEmpty
    \/ ProcessPhoto
    \/ Stop

\* the worker thread is a thread of the process and gets its turn: each step
\* of _run that stays possible is taken
SpecDrain ==
    /\ InitDrain /\ [][NextDrain]_vars
    /\ WF_vars(LoopCheck) /\ WF_vars(QueueEmpty) /\ WF_vars(ProcessPhoto)

(* ------------------- the worker's threads, step by step ---------------- *)
\* AIWorker._run, queue.get(timeout=2) returning the photo id at the head of
\* the queue
Dequeue ==
    \E t \in Threads :
        /\ pc[t] = "get"
        /\ queue # << >>
        /\ queue' = Tail(queue)
        /\ taken' = [taken EXCEPT ![t] = Head(queue)]
        /\ pc' = [pc EXCEPT ![t] = "process"]
        /\ UNCHANGED << lookup, sessions, faces, photo_faces, running, detector_loaded, embedder_loaded, joining, dialog >>

\* AIWorker._run, self._process_photo(photo_id) on the photo taken
ProcessTaken ==
    \E t \in Threads :
        /\ pc[t] = "process"
        /\ \E in \in PhotoInputs(taken[t], PipelineDetections) :
              \E out \in process_photo(faces, photo_faces, taken[t],
                                       in.cond, in.detected, in.rows) :
                  /\ faces' = out.faces
                  /\ photo_faces' = out.photo_faces
                  /\ pc' = [pc EXCEPT ![t] = AfterPhoto(out.outcome)]
        /\ taken' = [taken EXCEPT ![t] = NoPhoto]
        /\ UNCHANGED << lookup, sessions, queue, running, detector_loaded, embedder_loaded, joining, dialog >>

\* the worker's API and its threads, the turn of _run in its two steps
NextWorker ==
    \/ Start
    \/ Stop
    \/ Enqueue
    \/ EnqueueBatch
    \/ LoopCheck
    \/ QueueEmpty
    \/ Dequeue
    \/ ProcessTaken

SpecWorker == Init /\ [][NextWorker]_vars

(* -------------------------- stop() and its join ------------------------ *)
\* a join without a timeout: it returns when the thread has ended
join_unbounded(alive) == ~alive

\* self._thread.join(timeout=5) can return: the thread has ended, or the
\* timeout has run out, whichever the thread is doing
join_returns(alive) == TRUE

\* AIWorker.stop up to its join: the flag is cleared and, if the thread that
\* InitDrain has started is alive, stop() waits for it in join(timeout=5)
StopCall ==
    /\ ~joining
    /\ running' = FALSE
    /\ joining' = (pc[1] # "idle")
    /\ UNCHANGED << lookup, taken, sessions, faces, photo_faces, queue, pc,
                    detector_loaded, embedder_loaded, dialog >>

\* AIWorker.stop, the return of join(timeout=5) and of stop()
JoinReturn ==
    /\ joining
    /\ join_returns(pc[1] # "idle")
    /\ joining' = FALSE
    /\ UNCHANGED << lookup, taken, sessions, faces, photo_faces, queue, running, pc,
                    detector_loaded, embedder_loaded, dialog >>

NextStop ==
    \/ LoopCheck
    \/ QueueEmpty
    \/ Dequeue
    \/ ProcessTaken
    \/ StopCall
    \/ JoinReturn

\* the worker thread and the thread that has called stop() are threads of the
\* process and get their turn; queue.get(timeout=2) and join(timeout=5) return
\* when their timeout has run out
SpecStop ==
    /\ InitDrain /\ [][NextStop]_vars
    /\ WF_vars(LoopCheck) /\ WF_vars(QueueEmpty) /\ WF_vars(Dequeue)
    /\ WF_vars(ProcessTaken) /\ WF_vars(JoinReturn)

(* --------------------------- the matcher alone ------------------------- *)
\* the thresholds find_nearest_face is called with
Thresholds == { MATCH_THRESHOLD, CLUSTER_DISTANCE_THRESHOLD }

\* the snapshots of known faces: up to MaxKnown centroids, of any direction or
\* zero, with the ids of their faces
Snapshots == SeqsUpTo(UnitVectors \cup {ZeroVector}, MaxKnown)

\* find_nearest_face's return value while the call has not returned
NoResult == [id |-> NULL, dist |-> -One]

\* a call of find_nearest_face on any embedding and any snapshot
InitMatch ==
    /\ faces = << >>
    /\ photo_faces = << >>
    /\ queue = << >>
    /\ running = FALSE
    /\ pc = [ t \in Threads |-> "idle" ]
    /\ detector_loaded = FALSE
    /\ embedder_loaded = FALSE
    /\ taken = NoneTaken
    /\ sessions = NoSessions
    /\ joining = FALSE
    /\ dialog = NoDialog
    /\ \E embedding \in UnitVectors \cup {ZeroVector}, known_embeddings \in Snapshots,
          threshold \in Thresholds :
          lookup = [ state |-> "called", embedding |-> embedding,
                     known_embeddings |-> known_embeddings,
                     known_face_ids |-> [ i \in 1 .. Len(known_embeddings) |-> FaceId(i) ],
                     threshold |-> threshold, result |-> NoResult ]

\* face_cluster.find_nearest_face returns
FindNearest ==
    /\ lookup.state = "called"
    /\ lookup' = [ lookup EXCEPT
                     !.state = "returned",
                     !.result = find_nearest_face(lookup.embedding, lookup.known_embeddings,
                                                  lookup.known_face_ids, lookup.threshold) ]
    /\ UNCHANGED << faces, photo_faces, queue, running, pc, detector_loaded, embedder_loaded,
                    taken, sessions, joining, dialog >>

NextMatch == FindNearest

SpecMatch == InitMatch /\ [][NextMatch]_vars

(* ------------------------ the serialisation alone ---------------------- *)
\* the 32-bit patterns of the components: small and large, of either sign,
\* with low bytes, high bytes and sign bytes of every kind
Components ==
    { -(2 ^ 30), -(2 ^ 16) - 1, -Byte, -UnitNorm, -1, 0, 1, UnitNorm,
      Byte - 1, Byte, 2 ^ 16 + 1, 2 ^ 30 }

\* the float32 arrays of up to MaxDim components
Embeddings == SeqsUpTo(Components, MaxDim)

\* a call of embedding_to_bytes on any embedding
InitCodec ==
    /\ faces = << >>
    /\ photo_faces = << >>
    /\ queue = << >>
    /\ running = FALSE
    /\ pc = [ t \in Threads |-> "idle" ]
    /\ detector_loaded = FALSE
    /\ embedder_loaded = FALSE
    /\ taken = NoneTaken
    /\ sessions = NoSessions
    /\ joining = FALSE
    /\ dialog = NoDialog
    /\ \E embedding \in Embeddings :
          lookup = [ state |-> "called", embedding |-> embedding,
                     data |-> << >>, restored |-> << >> ]

\* face_embedder.embedding_to_bytes returns
Serialize ==
    /\ lookup.state = "called"
    /\ lookup' = [ lookup EXCEPT !.state = "serialized",
                                 !.data = embedding_to_bytes(lookup.embedding) ]
    /\ UNCHANGED << faces, photo_faces, queue, running, pc, detector_loaded, embedder_loaded,
                    taken, sessions, joining, dialog >>

\* face_embedder.bytes_to_embedding returns, called on the bytes
Deserialize ==
    /\ lookup.state = "serialized"
    /\ lookup' = [ lookup EXCEPT !.state = "restored",
                                 !.restored = bytes_to_embedding(lookup.data) ]
    /\ UNCHANGED << faces, photo_faces, queue, running, pc, detector_loaded, embedder_loaded,
                    taken, sessions, joining, dialog >>

NextCodec ==
    \/ Serialize
    \/ Deserialize

SpecCodec == InitCodec /\ [][NextCodec]_vars

(* ------------------ the worker and those who enqueue ------------------- *)
\* the started worker, its thread and the callers of enqueue, enqueue_batch
\* and stop
NextBacklog ==
    \/ Enqueue
    \/ EnqueueBatch
    \/ LoopCheck
    \/ QueueEmpty
    \/ Dequeue
    \/ ProcessTaken
    \/ Stop

\* the worker thread is a thread of the process and gets its turn, and
\* _process_photo returns or raises; nothing makes a caller enqueue or stop
SpecBacklog ==
    /\ InitDrain /\ [][NextBacklog]_vars
    /\ WF_vars(LoopCheck) /\ WF_vars(QueueEmpty) /\ WF_vars(Dequeue)
    /\ WF_vars(ProcessTaken)

(* ------------------------------ the detector --------------------------- *)
\* CONFIDENCE_THRESHOLD (0.7), in tenths
CONFIDENCE_THRESHOLD == 7

\* the coordinate 1.0 of a normalized box: coordinates are in 1/200
CoordUnit == 200

\* image.size: the width and the height of the original image, in pixels
ImageSize == 100

\* the face scores of the model's output rows, in tenths
Scores == { 6, 7, 9 }

\* the coordinates of the model's output rows: -0.5, 0.25 and 1.005
Coords == { -100, 50, 201 }

\* the model's output rows: a face score and a box x1, y1, x2, y2
RawRows == { [score |-> c, box |-> << x1, y1, x2, y2 >>] :
             c \in Scores, x1 \in Coords, y1 \in Coords, x2 \in Coords, y2 \in Coords }

\* the outputs of one inference: up to MaxBoxes rows
ModelOutputs == SeqsUpTo(RawRows, MaxBoxes)

\* int(): the integer part of n / d, towards zero
IntPart(n, d) == IF n >= 0 THEN n \div d ELSE -((-n) \div d)

\* max(a, b) and min(a, b)
Max(a, b) == IF b > a THEN b ELSE a
Min(a, b) == IF b < a THEN b ELSE a

\* image.crop(box).resize((112, 112)): it returns the crop; of a box that is
\* empty or has its right side left of its left side, Pillow raises
\* ValueError or returns an empty crop, depending on its version
CropOutcomes(px1, py1, px2, py2) ==
    IF px2 <= px1 \/ py2 <= py1 THEN { "raises", "returns" } ELSE { "returns" }

\* FaceDetector.detect, the body of "for i in range(confidences.shape[0])"
\* for one row that passes the confidence filter: the DetectedFace it appends
DetectedFace(row) ==
    LET x1 == Max(0, row.box[1])
        y1 == Max(0, row.box[2])
        x2 == Min(CoordUnit, row.box[3])
        y2 == Min(CoordUnit, row.box[4])
        px1 == IntPart(x1 * ImageSize, CoordUnit)
        py1 == IntPart(y1 * ImageSize, CoordUnit)
        px2 == IntPart(x2 * ImageSize, CoordUnit)
        py2 == IntPart(y2 * ImageSize, CoordUnit)
        pad_w == IntPart((px2 - px1) * 15, 100)
        pad_h == IntPart((py2 - py1) * 15, 100)
    IN  [ bbox_x |-> x1, bbox_y |-> y1, bbox_w |-> x2 - x1, bbox_h |-> y2 - y1,
          confidence |-> row.score,
          crop |-> << Max(0, px1 - pad_w), Max(0, py1 - pad_h),
                      Min(ImageSize, px2 + pad_w), Min(ImageSize, py2 + pad_h) >> ]

\* the loop of detect from the i-th row: the lists of faces it can end with,
\* or the exception that crop or resize raises
RECURSIVE DetectLoop(_, _, _)
DetectLoop(outputs, i, found) ==
    IF i > Len(outputs) THEN { [raised |-> FALSE, faces |-> found] }
    ELSE IF outputs[i].score < CONFIDENCE_THRESHOLD
         THEN DetectLoop(outputs, i + 1, found)
         ELSE LET face == DetectedFace(outputs[i])
                  box == face.crop
              IN  UNION { IF o = "raises"
                          THEN { [raised |-> TRUE, faces |-> << >>] }
                          ELSE DetectLoop(outputs, i + 1, Append(found, face))
                          : o \in CropOutcomes(box[1], box[2], box[3], box[4]) }

\* face_detector.FaceDetector.detect: loaded tells whether the model is loaded,
\* inference whether session.run returns, outputs what it returns
detect(loaded, inference, outputs) ==
    IF ~loaded \/ ~inference THEN { [raised |-> FALSE, faces |-> << >>] }
    ELSE DetectLoop(outputs, 1, << >>)

\* a call of detect on an image, with any outputs of the model
InitDetect ==
    /\ faces = << >>
    /\ photo_faces = << >>
    /\ queue = << >>
    /\ running = FALSE
    /\ pc = [ t \in Threads |-> "idle" ]
    /\ detector_loaded \in BOOLEAN
    /\ embedder_loaded = FALSE
    /\ taken = NoneTaken
    /\ sessions = NoSessions
    /\ joining = FALSE
    /\ dialog = NoDialog
    /\ \E inference \in BOOLEAN, outputs \in ModelOutputs :
          lookup = [ state |-> "detecting", inference |-> inference,
                     outputs |-> outputs, raised |-> FALSE, faces |-> << >> ]

\* detect returns its list of faces, or raises
Detect ==
    /\ lookup.state = "detecting"
    /\ \E result \in detect(detector_loaded, lookup.inference, lookup.outputs) :
          lookup' = [ lookup EXCEPT !.state = "detected",
                                    !.raised = result.raised,
                                    !.faces = result.faces ]
    /\ UNCHANGED << faces, photo_faces, queue, running, pc, detector_loaded, embedder_loaded,
                    taken, sessions, joining, dialog >>

NextDetect == Detect

SpecDetect == InitDetect /\ [][NextDetect]_vars

(* --------------------------- the dialog manager ------------------------ *)
\* the intents the voice commands come with
Intents == { "SEARCH_PERSON", "SEARCH_DATE", "SEARCH_PLACE", "SHOW_PHOTOS", "PLAY_SLIDESHOW" }

\* the slots of a command: dicts over the keys person and date_expr
Slots ==
    { << >>, [person |-> "mom"], [date_expr |-> "today"],
      [person |-> "mom", date_expr |-> "today"] }

\* the photo_ids of update_context: None, or the ids of the last result
PhotoLists == { << >>, << "p1" >> }

\* DialogContext()
NewContext ==
    [ last_intent |-> "", last_slots |-> << >>, accumulated_filters |-> << >>,
      last_photos |-> << >>, last_active_time |-> 0, turn_count |-> 0 ]

\* a context that only a context never touched counts as expired
never_touched(ctx, now) == ctx.last_active_time = 0

\* DialogContext.is_expired, time.time() returning now
is_expired(ctx, now) ==
    IF ctx.last_active_time = 0 THEN TRUE
    ELSE (now - ctx.last_active_time) > SESSION_TIMEOUT_SECONDS

\* DialogSessionManager.get_context: _sessions after the call
get_context(S, now, user_id) ==
    IF user_id \notin DOMAIN S \/ is_expired(S[user_id], now)
    THEN [ u \in (DOMAIN S) \cup {user_id} |-> IF u = user_id THEN NewContext ELSE S[u] ]
    ELSE S

\* dict.update: d with the items of e
DictUpdate(d, e) ==
    [ k \in (DOMAIN d) \cup (DOMAIN e) |-> IF k \in DOMAIN e THEN e[k] ELSE d[k] ]

\* DialogSessionManager.update_context: _sessions after the call
update_context(S, now, user_id, intent, slots, photo_ids) ==
    LET got == get_context(S, now, user_id)
        ctx == got[user_id]
        searching == \/ intent \in { "SEARCH_PERSON", "SEARCH_DATE", "SEARCH_PLACE" }
                     \/ intent = "SHOW_PHOTOS"
    IN  [ got EXCEPT ![user_id] =
            [ last_intent |-> intent,
              last_slots |-> slots,
              accumulated_filters |-> IF searching
                                      THEN DictUpdate(ctx.accumulated_filters, slots)
                                      ELSE ctx.accumulated_filters,
              last_photos |-> IF photo_ids # << >> THEN photo_ids ELSE ctx.last_photos,
              last_active_time |-> now,
              turn_count |-> ctx.turn_count + 1 ] ]

\* DialogSessionManager.apply_context: _sessions after the call and the slots
\* it returns
apply_context(S, now, user_id, intent, slots) ==
    LET got == get_context(S, now, user_id)
        ctx == got[user_id]
        inherits == /\ intent \in { "SEARCH_DATE", "SEARCH_PLACE" }
                    /\ "person" \notin DOMAIN slots
                    /\ "person" \in DOMAIN ctx.accumulated_filters
        with_person == IF inherits
                       THEN DictUpdate(slots, [person |-> ctx.accumulated_filters["person"]])
                       ELSE slots
        with_filters == IF intent = "SHOW_PHOTOS" /\ DOMAIN with_person = {}
                        THEN DictUpdate(with_person, ctx.accumulated_filters)
                        ELSE with_person
        enriched == IF intent = "PLAY_SLIDESHOW" /\ ctx.last_photos # << >>
                    THEN DictUpdate(with_filters, [photo_ids |-> ctx.last_photos])
                    ELSE with_filters
    IN  [ sessions |-> got,
          returns |-> IF is_expired(ctx, now) \/ ctx.turn_count = 0 THEN slots ELSE enriched ]

\* the clock goes on, by the timeout or by a second more
Elapsed == { SESSION_TIMEOUT_SECONDS, SESSION_TIMEOUT_SECONDS + 1 }

Tick ==
    \E d \in Elapsed :
        /\ dialog.now + d <= MaxClock
        /\ dialog' = [dialog EXCEPT !.now = @ + d]
        /\ UNCHANGED << faces, photo_faces, queue, running, pc, detector_loaded,
                        embedder_loaded, lookup, taken, sessions, joining >>

\* a call of get_context
GetContext ==
    \E user_id \in Users :
        /\ dialog' = [dialog EXCEPT !.sessions = get_context(@, dialog.now, user_id)]
        /\ UNCHANGED << faces, photo_faces, queue, running, pc, detector_loaded,
                        embedder_loaded, lookup, taken, sessions, joining >>

\* a call of update_context, after a command that has succeeded
UpdateContext ==
    \E user_id \in Users, intent \in Intents, slots \in Slots, photo_ids \in PhotoLists :
        LET after == update_context(dialog.sessions, dialog.now, user_id, intent, slots, photo_ids)
        IN  /\ after[user_id].turn_count <= MaxTurns
            /\ dialog' = [dialog EXCEPT !.sessions = after]
            /\ UNCHANGED << faces, photo_faces, queue, running, pc, detector_loaded,
                            embedder_loaded, lookup, taken, sessions, joining >>

\* a call of apply_context, before a command is executed
ApplyContext ==
    \E user_id \in Users, intent \in Intents, slots \in Slots :
        /\ dialog' = [dialog EXCEPT !.sessions =
                        apply_context(@, dialog.now, user_id, intent, slots).sessions]
        /\ UNCHANGED << faces, photo_faces, queue, running, pc, detector_loaded,
                        embedder_loaded, lookup, taken, sessions, joining >>

NextDialog ==
    \/ Tick
    \/ GetContext
    \/ UpdateContext
    \/ ApplyContext

\* the dialog manager alone: the worker is not started
SpecDialog == Init /\ [][NextDialog]_vars

(* ------------------------------ properties ----------------------------- *)
\* the ids named by a list
Range(q) == { q[i] : i \in 1 .. Len(q) }

\* the number of rows of the link table L that reference an identity of ids
LinksOf(L, ids) == Cardinality({ i \in 1 .. Len(L) : L[i].face_id \in ids })

\* the photo has occurrence links
Linked(photo_id) == \E i \in 1 .. Len(photo_faces) : photo_faces[i].photo_id = photo_id

\* C1: after any sequence of photo-processing, merge and recluster operations,
\* the photo_count of every identity is the number of occurrence links that
\* reference it.
CountMatchesLinks ==
    \A f \in DOMAIN faces : faces[f].photo_count = LinksOf(photo_faces, {f})

\* C1's case: several photos processed, an identity that gathered more than
\* one link next to another identity
CountedSeveralLinks ==
    /\ Len(photo_faces) = NumPhotos * MaxDet
    /\ \E f, g \in DOMAIN faces :
          f # g /\ faces[f].photo_count >= 2 /\ faces[g].photo_count >= 1

\* C2: merge(T, S) on an existing target T leaves no link that references a
\* source of S (an existing identity named in S, other than T), deletes every
\* source of S, and the links of T are then as many as T's links plus the
\* links of the sources of S before the merge.
MergeCompleteness ==
    \A target \in DOMAIN faces, sources \in SourceLists :
        LET after == merge_faces(faces, photo_faces, target, sources)
            S == (Range(sources) \cap DOMAIN faces) \ {target}
        IN  /\ after.found
            /\ LinksOf(after.photo_faces, S) = 0
            /\ S \cap DOMAIN after.faces = {}
            /\ target \in DOMAIN after.faces
            /\ LinksOf(after.photo_faces, {target})
                 = LinksOf(photo_faces, {target}) + LinksOf(photo_faces, S)

\* C2's case: a merge of two sources that both carry links into a third identity
MergesTwoSources ==
    \E target \in DOMAIN faces, sources \in SourceLists :
        /\ Len(sources) = 2 /\ sources[1] # sources[2]
        /\ Range(sources) \subseteq (DOMAIN faces) \ {target}
        /\ \A s \in Range(sources) : LinksOf(photo_faces, {s}) >= 1
        /\ LinksOf(merge_faces(faces, photo_faces, target, sources).photo_faces, {target}) >= 3

MergeOfNothing ==
    \A target \in DOMAIN faces :
        LET after == merge_faces(faces, photo_faces, target, << >>)
        IN  after.found /\ after.faces = faces /\ after.photo_faces = photo_faces

\* C4's case: an empty merge into a target with several links, other
\* identities present
EmptyMergeAmongOthers ==
    \E target \in DOMAIN faces :
        /\ faces[target].photo_count >= 2
        /\ Cardinality(DOMAIN faces) >= 2
        /\ merge_faces(faces, photo_faces, target, << >>).merged = 0

\* the centroid stored for identity f
Centroid(f) == bytes_to_embedding(faces[f].embedding)

\* the cosine distance of two stored centroids is at most eps
WithinEps(f, g) ==
    /\ faces[f].embedding # NoBytes /\ faces[g].embedding # NoBytes
    /\ 10 * (One - Dot(Centroid(f), Centroid(g))) <= CLUSTER_DISTANCE_THRESHOLD * One

RECURSIVE TotalPhotoCount(_)
\* the sum of the photo_counts of the identities of ids
TotalPhotoCount(ids) ==
    IF ids = {} THEN 0
    ELSE LET f == CHOOSE x \in ids : TRUE
         IN  faces[f].photo_count + TotalPhotoCount(ids \ {f})

\* the table holds N >= 2 identities whose centroids are pairwise within eps
AllWithinEps ==
    /\ Cardinality(DOMAIN faces) >= 2
    /\ \A f, g \in DOMAIN faces : WithinEps(f, g)

\* one recluster pass leaves one identity that carries the sum of the counts
ConvergesTo(after) ==
    /\ Cardinality(DOMAIN after.faces) = 1
    /\ \A f \in DOMAIN after.faces :
          after.faces[f].photo_count = TotalPhotoCount(DOMAIN faces)

\* C5 as stated: given N >= 2 identities whose centroids are pairwise within
\* eps, one recluster pass leaves exactly one identity, whose photo_count is the
\* sum of the N photo_counts.
ReclusterConverges ==
    AllWithinEps =>
        \A rows \in RowOrders, sklearn \in BOOLEAN :
            ConvergesTo(recluster_faces(faces, photo_faces, rows, sklearn))

\* C5, amended: given N >= 2 identities whose centroids are pairwise within eps,
\* one recluster pass in a process that can import scikit-learn leaves exactly
\* one identity, whose photo_count is the sum of the N photo_counts.
ReclusterConvergesWithSklearn ==
    AllWithinEps =>
        \A rows \in RowOrders :
            ConvergesTo(recluster_faces(faces, photo_faces, rows, TRUE))

\* C5's case: two identities within eps of each other that carry three links,
\* which a recluster pass merges
TwoIdentitiesWithinEps ==
    /\ AllWithinEps
    /\ TotalPhotoCount(DOMAIN faces) >= 3
    /\ \E rows \in RowOrders : recluster_faces(faces, photo_faces, rows, TRUE).merged >= 1

\* the table holds the four identities A, B, C, D and no other: A within eps of
\* B, C within eps of D, and neither A nor B within eps of C or D
TwoPairs(A, B, C, D) ==
    /\ DOMAIN faces = {A, B, C, D} /\ Cardinality({A, B, C, D}) = 4
    /\ WithinEps(A, B) /\ WithinEps(C, D)
    /\ ~WithinEps(A, C) /\ ~WithinEps(A, D) /\ ~WithinEps(B, C) /\ ~WithinEps(B, D)

\* the pass has formed the groups {A,B} and {C,D} and merged each into one of
\* its own members
KeepsPairsApart(after, A, B, C, D) ==
    /\ { Range(after.groups[k].fids) : k \in 1 .. Len(after.groups) } = { {A, B}, {C, D} }
    /\ Cardinality(DOMAIN after.faces) = 2
    /\ Cardinality((DOMAIN after.faces) \cap {A, B}) = 1
    /\ Cardinality((DOMAIN after.faces) \cap {C, D}) = 1
    /\ Len(after.photo_faces) = Len(photo_faces)
    /\ \A i \in 1 .. Len(photo_faces) :
          /\ after.photo_faces[i].face_id \in DOMAIN after.faces
          /\ (photo_faces[i].face_id \in {A, B}) = (after.photo_faces[i].face_id \in {A, B})

\* C6 as stated: given four identities A, B, C, D with A within eps of B, C
\* within eps of D and neither A nor B within eps of C or D, a recluster pass
\* forms exactly the groups {A,B} and {C,D}, leaves exactly two identities,
\* and merges no identity of one group into the other.
ReclusterSeparatesPairs ==
    \A A, B, C, D \in DOMAIN faces :
        TwoPairs(A, B, C, D) =>
            \A rows \in RowOrders, sklearn \in BOOLEAN :
                KeepsPairsApart(recluster_faces(faces, photo_faces, rows, sklearn), A, B, C, D)

\* C6, amended: the same, for a recluster pass in a process that can import
\* scikit-learn.
ReclusterSeparatesPairsWithSklearn ==
    \A A, B, C, D \in DOMAIN faces :
        TwoPairs(A, B, C, D) =>
            \A rows \in RowOrders :
                KeepsPairsApart(recluster_faces(faces, photo_faces, rows, TRUE), A, B, C, D)

\* C6's case: four such identities, which a recluster pass merges two by two
FourIdentitiesInTwoPairs ==
    \E A, B, C, D \in DOMAIN faces :
        /\ TwoPairs(A, B, C, D)
        /\ \E rows \in RowOrders :
              Len(recluster_faces(faces, photo_faces, rows, TRUE).targets) = 2

\* the cosine distance of two embeddings is beyond the match threshold
BeyondMatch(a, b) == 10 * (One - Dot(a, b)) > MATCH_THRESHOLD * One

\* the embedding matches no stored identity
NovelFace(e) ==
    \A f \in DOMAIN faces : faces[f].embedding # NoBytes => BeyondMatch(Centroid(f), e)

\* the photo has no links yet and the embedder returns two embeddings for it,
\* which match no stored identity and do not match each other
TwoNovelFaces(photo_id, detected) ==
    /\ ~Linked(photo_id)
    /\ Len(detected) = 2 /\ detected[1] # NoBytes /\ detected[2] # NoBytes
    /\ NovelFace(detected[1]) /\ NovelFace(detected[2])
    /\ BeyondMatch(detected[1], detected[2])

\* the run has added two identities with photo_count 1 and embeddings as
\* detected, one link of the photo to each, and nothing else
AddedTwoIdentities(out, photo_id) ==
    LET created == (DOMAIN out.faces) \ (DOMAIN faces)
        L == Len(photo_faces)
    IN  /\ Cardinality(created) = 2
        /\ \A f \in DOMAIN faces : f \in DOMAIN out.faces /\ out.faces[f] = faces[f]
        /\ Len(out.photo_faces) = L + 2
        /\ \A i \in 1 .. L : out.photo_faces[i] = photo_faces[i]
        /\ \A f \in created :
              /\ out.faces[f].photo_count = 1
              /\ LinksOf(out.photo_faces, {f}) = 1
        /\ \A i \in (L + 1) .. (L + 2) :
              /\ out.photo_faces[i].photo_id = photo_id
              /\ out.photo_faces[i].face_id \in created

\* C7: a run of _process_photo, not ended by an exception, on a photo with two
\* detected faces that match no stored identity and do not match each other
\* creates exactly two identities and exactly two links, one to each of them,
\* and each of the two identities has photo_count 1.
TwoNovelFacesTwoIdentities ==
    \A photo_id \in PhotoIds, detected \in StoreDetections, rows \in RowOrders :
        TwoNovelFaces(photo_id, detected) =>
            \A out \in process_photo(faces, photo_faces, photo_id, "ok", detected, rows) :
                out.outcome = "committed" => AddedTwoIdentities(out, photo_id)

\* C7's case: identities are stored, and a photo with two faces that match
\* none of them and not each other is processed and committed
TwoNovelFacesNextToOthers ==
    /\ faces # << >>
    /\ \E photo_id \in PhotoIds, detected \in StoreDetections, rows \in RowOrders :
          /\ TwoNovelFaces(photo_id, detected)
          /\ \E out \in process_photo(faces, photo_faces, photo_id, "ok", detected, rows) :
                out.outcome = "committed"

\* the embedder returns one embedding for the photo's detections
OneFace(detected, e) ==
    /\ e # NoBytes
    /\ \E k \in 1 .. Len(detected) :
          detected[k] = e /\ \A j \in (1 .. Len(detected)) \ {k} : detected[j] = NoBytes

\* the run has added one link of the photo to identity A and one to A's
\* photo_count, and no identity
AddedOneLinkTo(out, photo_id, A) ==
    LET L == Len(photo_faces)
    IN  /\ DOMAIN out.faces = DOMAIN faces
        /\ out.faces[A].photo_count = faces[A].photo_count + 1
        /\ \A f \in (DOMAIN faces) \ {A} : out.faces[f] = faces[f]
        /\ Len(out.photo_faces) = L + 1
        /\ \A i \in 1 .. L : out.photo_faces[i] = photo_faces[i]
        /\ out.photo_faces[L + 1].photo_id = photo_id
        /\ out.photo_faces[L + 1].face_id = A

\* the photo is new, the embedder returns the one embedding e for it, and e
\* is within the match threshold of the stored identity A
FaceWithinMatchOf(photo_id, detected, e, A) ==
    /\ ~Linked(photo_id) /\ OneFace(detected, e)
    /\ faces[A].embedding # NoBytes /\ ~BeyondMatch(Centroid(A), e)

\* every other stored identity is farther from e than A
NearestTo(e, A) ==
    \A f \in (DOMAIN faces) \ {A} :
        faces[f].embedding # NoBytes => Dot(Centroid(f), e) < Dot(Centroid(A), e)

\* C8 as stated: a run of _process_photo, not ended by an exception, on a new
\* photo with a face whose embedding is within the match threshold of the
\* stored identity A adds one to A's photo_count and one link to A, and leaves
\* the number of identities as it is.
MatchedFaceCountsOnce ==
    \A photo_id \in PhotoIds, detected \in StoreDetections, rows \in RowOrders,
       A \in DOMAIN faces, e \in EmbedOutputs :
        FaceWithinMatchOf(photo_id, detected, e, A) =>
            \A out \in process_photo(faces, photo_faces, photo_id, "ok", detected, rows) :
                out.outcome = "committed" => AddedOneLinkTo(out, photo_id, A)

\* C8, amended: the same, for the identity A that is nearer to the face's
\* embedding than every other stored identity.
NearestMatchedFaceCountsOnce ==
    \A photo_id \in PhotoIds, detected \in StoreDetections, rows \in RowOrders,
       A \in DOMAIN faces, e \in EmbedOutputs :
        (FaceWithinMatchOf(photo_id, detected, e, A) /\ NearestTo(e, A)) =>
            \A out \in process_photo(faces, photo_faces, photo_id, "ok", detected, rows) :
                /\ out.outcome = "committed"
                /\ AddedOneLinkTo(out, photo_id, A)

\* C8's case: a new photo with a face within the match threshold of two stored
\* identities, one of them nearer than the other
MatchedFaceBetweenTwo ==
    \E photo_id \in PhotoIds, detected \in StoreDetections,
       A \in DOMAIN faces, B \in DOMAIN faces, e \in EmbedOutputs :
        /\ A # B
        /\ FaceWithinMatchOf(photo_id, detected, e, A) /\ NearestTo(e, A)
        /\ FaceWithinMatchOf(photo_id, detected, e, B)
        /\ Centroid(A) # e

\* C9: while the detector or the embedder is not loaded, no worker thread runs,
\* the queue depth is 0, every enqueue and enqueue_batch leaves the queue as it
\* is, and a start() that leaves a model not loaded returns False and starts
\* no thread.
UnavailableWorkerStaysIdle ==
    /\ ~(detector_loaded /\ embedder_loaded) =>
          /\ ~running
          /\ \A t \in Threads : pc[t] = "idle"
          /\ Len(queue) = 0
          /\ \A photo_ids \in Batches : put_all(queue, photo_ids) = queue
    /\ \A det_ok \in BOOLEAN, emb_ok \in BOOLEAN :
          LET after == start(det_ok, emb_ok)
          IN  ~(after.detector_loaded /\ after.embedder_loaded) =>
                  /\ ~after.returns
                  /\ ~after.running
                  /\ after.pc = pc

\* C9's case: start() has loaded the detector and not the embedder
StartFailedOnEmbedder ==
    /\ detector_loaded /\ ~embedder_loaded
    /\ ~start(TRUE, FALSE).returns
    /\ put_all(queue, << 1 >>) = << >>

\* C10: find_nearest_face returns the id of a known identity at the least
\* cosine distance from the embedding, and that distance, exactly when the
\* least distance is at most the threshold; when it is greater, or no identity
\* is known, it returns no id; and the result is fixed by the snapshot and
\* the embedding: of several identities at the least distance it is the first
\* of the snapshot.
MatcherReturnsNearest ==
    lookup.state = "returned" =>
        LET K == lookup.known_embeddings
            dist(i) == One - Dot(K[i], lookup.embedding)
            nearest == { i \in 1 .. Len(K) : \A j \in 1 .. Len(K) : dist(i) <= dist(j) }
            first == CHOOSE i \in nearest : \A j \in nearest : i <= j
            r == lookup.result
        IN  IF K = << >> THEN r.id = NULL
            ELSE IF 10 * dist(first) <= lookup.threshold * One
                 THEN r.id = lookup.known_face_ids[first] /\ r.dist = dist(first)
                 ELSE r.id = NULL /\ r.dist = dist(first)

\* C10's case: two identities known, the nearer one exactly at the threshold
MatchedAtTheThreshold ==
    /\ lookup.state = "returned"
    /\ Len(lookup.known_embeddings) = 2
    /\ lookup.result.id = FaceId(2)
    /\ 10 * lookup.result.dist = lookup.threshold * One

\* the ids a merge request can name that no identity has
MissingIds == RequestIds \ DOMAIN faces

\* C11: merge(target_id, source_ids) with a target_id that no identity has
\* returns the not-found outcome and leaves every identity, with its centroid
\* and photo_count, and every link as it was, also when listed sources exist.
MergeIntoMissingTarget ==
    \A target \in MissingIds, sources \in SourceLists :
        LET after == merge_faces(faces, photo_faces, target, sources)
        IN  ~after.found /\ after.faces = faces /\ after.photo_faces = photo_faces

\* C11's case: a merge into a missing target that lists two existing sources,
\* one of them with links
MissingTargetExistingSources ==
    \E target \in MissingIds, sources \in SourceLists :
        /\ Len(sources) = 2 /\ sources[1] # sources[2]
        /\ Range(sources) \subseteq DOMAIN faces
        /\ LinksOf(photo_faces, {sources[1]}) >= 1
        /\ ~merge_faces(faces, photo_faces, target, sources).found

RECURSIVE WithoutRepeats(_, _)
\* the list without the ids of skip and without the later occurrences of an id
WithoutRepeats(ids, skip) ==
    IF ids = << >> THEN << >>
    ELSE IF Head(ids) \in skip THEN WithoutRepeats(Tail(ids), skip)
         ELSE << Head(ids) >> \o WithoutRepeats(Tail(ids), skip \cup {Head(ids)})

\* the source list names the target or names an id more than once
NamesTargetOrRepeats(target, sources) ==
    target \in Range(sources) \/ Cardinality(Range(sources)) < Len(sources)

\* C12 as stated: a merge whose source list names the target, or an id more
\* than once, does not fail and leaves the identities, with the target's
\* centroid and photo_count, and the links as the merge of the list without the
\* target and without the repeats leaves them; the same call once more changes
\* nothing.
MergeSkipsTargetAndRepeats ==
    \A target \in DOMAIN faces, sources \in SourceLists :
        NamesTargetOrRepeats(target, sources) =>
            LET after == merge_faces(faces, photo_faces, target, sources)
                clean == merge_faces(faces, photo_faces, target,
                                     WithoutRepeats(sources, {target}))
                again == merge_faces(after.faces, after.photo_faces, target, sources)
            IN  /\ after.found
                /\ after.faces = clean.faces /\ after.photo_faces = clean.photo_faces
                /\ again.found
                /\ again.faces = after.faces /\ again.photo_faces = after.photo_faces

\* C13: after any sequence of photo-processing, merge and recluster operations,
\* every occurrence link references an identity that exists.
NoDanglingLink ==
    \A i \in 1 .. Len(photo_faces) : photo_faces[i].face_id \in DOMAIN faces

\* C13's case: the identity created first has been merged away (ids are drawn
\* lowest first) and links of several photos are left
LinksSurviveDeletedIdentity ==
    /\ faces # << >> /\ FaceId(1) \notin DOMAIN faces
    /\ \A photo_id \in PhotoIds : Linked(photo_id)
    /\ Len(photo_faces) >= 3

\* a run of _process_photo on photo_id can end with an exception
CanFail(photo_id) ==
    \E in \in PhotoInputs(photo_id, PipelineDetections) :
        \E out \in process_photo(faces, photo_faces, photo_id, in.cond, in.detected, in.rows) :
            out.outcome = "failed"

\* C14: whatever the outcome of processing a photo (photo missing, file
\* missing, corrupt image, an exception), the thread that took it is back at its
\* loop, the worker still runs if it did before, the photos behind it are left
\* in the queue in their order, and, unless stop() is called, each of them is
\* dequeued and processed in its turn.
FailedPhotoLeavesWorkerRunning ==
    /\ [][ \A t \in Threads :
             (pc[t] = "get" /\ queue # << >> /\ queue' # queue) =>
                 /\ pc'[t] = "check"
                 /\ running' = running
                 /\ queue' = Tail(queue) ]_vars
    /\ \A n \in 1 .. MaxQueue :
          (running /\ Len(queue) = n) ~> (~running \/ Len(queue) < n)

\* C14's case: the thread is back at its loop after a photo whose processing
\* left nothing (no photo, no file, a corrupt image or an exception, since no
\* identity exists), the worker runs and another photo is queued behind
FailedPhotoAheadOfAnother ==
    /\ running /\ Len(queue) = 1
    /\ \E t \in Threads : pc[t] = "check"
    /\ faces = << >> /\ photo_faces = << >>
    /\ CanFail(queue[1])

\* the threads that have taken a photo and not ended its processing
Processing == { t \in Threads : pc[t] = "process" }

\* a step that changes the queue puts photo ids at its tail or takes the photo
\* id at its head, which the taking thread goes on to process
QueueIsFifo ==
    (queue' # queue) =>
        \/ \E photo_ids \in Batches : queue' = queue \o photo_ids
        \/ /\ queue # << >> /\ queue' = Tail(queue)
           /\ \E t \in Threads :
                 pc[t] = "get" /\ pc'[t] = "process" /\ taken'[t] = Head(queue)

\* a thread takes a photo only when no photo taken earlier is still processed
OneAtATime ==
    \A t \in Threads : (pc[t] # "process" /\ pc'[t] = "process") => Processing = {}

\* C15 as stated: photos are processed in FIFO enqueue order: the photo
\* enqueued first is dequeued first, and the processing of a photo never begins
\* before the processing of every photo enqueued earlier has ended.
PhotosInFifoOrder == [][QueueIsFifo /\ OneAtATime]_vars

\* C16 as stated: with fewer than two identities that carry an embedding, a
\* recluster pass changes no identity and no link and reports zero clusters
\* and zero merges.
ReclusterOfFewReportsZero ==
    Cardinality(WithEmbedding(faces)) < 2 =>
        \A rows \in RowOrders, sklearn \in BOOLEAN :
            LET after == recluster_faces(faces, photo_faces, rows, sklearn)
            IN  /\ after.faces = faces /\ after.photo_faces = photo_faces
                /\ after.clusters = 0 /\ after.merged = 0

\* C17: a recluster pass whose groups lose members to concurrent requests
\* (one, several or all members of a group) skips the members that are gone
\* and completes: it does not end in an exception.
ReclusterPassCompletes == sessions.pass.state # "failed"

\* C18: however the worker's processing of a photo interleaves with a merge or
\* a recluster served meanwhile, the photo_count of every identity is the
\* number of its links and every link references an existing identity.
RunAmongRequestsKeepsTables ==
    /\ \A f \in DOMAIN faces : faces[f].photo_count = LinksOf(photo_faces, {f})
    /\ \A i \in 1 .. Len(photo_faces) : photo_faces[i].face_id \in DOMAIN faces

\* the tables after the two requests, served one after the other in the order
\* given, on the tables both have read
SerialMerges(first, second) ==
    LET merges == sessions.merges
        one == merge_faces(merges[first].view, merges[first].links,
                           merges[first].target_face_id, merges[first].source_face_ids)
        two == merge_faces(one.faces, one.photo_faces,
                           merges[second].target_face_id, merges[second].source_face_ids)
    IN  << two.faces, two.photo_faces >>

\* the two requests have read the same tables and both have ended
BothMergesEnded ==
    /\ \A r \in Requests : sessions.merges[r].state \in { "done", "failed" }
    /\ sessions.merges[1].view = sessions.merges[2].view

\* C19: two merge calls that run concurrently and share a source leave every
\* link on an existing identity and every photo_count equal to the number of
\* links, and the tables are those of one of the two serial orders of the calls.
ConcurrentMergesSerialize ==
    BothMergesEnded =>
        /\ \A f \in DOMAIN faces : faces[f].photo_count = LinksOf(photo_faces, {f})
        /\ \A i \in 1 .. Len(photo_faces) : photo_faces[i].face_id \in DOMAIN faces
        /\ << faces, photo_faces >> \in { SerialMerges(1, 2), SerialMerges(2, 1) }

\* C20: bytes_to_embedding(embedding_to_bytes(v)) equals v component for
\* component for every float32 embedding v, and embedding_to_bytes(v) has 4
\* bytes for each component of v.
SerializationRoundTrip ==
    /\ lookup.state \in { "serialized", "restored" } =>
          Len(lookup.data) = 4 * Len(lookup.embedding)
    /\ lookup.state = "restored" =>
          /\ Len(lookup.restored) = Len(lookup.embedding)
          /\ \A i \in 1 .. Len(lookup.embedding) : lookup.restored[i] = lookup.embedding[i]

\* C20's case: an embedding of MaxDim components, one negative and one that
\* fills more than two bytes, serialized and read back
RestoredWideAndNegative ==
    /\ lookup.state = "restored"
    /\ Len(lookup.embedding) = MaxDim
    /\ lookup.embedding[1] < 0
    /\ lookup.embedding[MaxDim] > Byte * Byte
    /\ Len(lookup.data) = 4 * MaxDim

\* C21: every centroid stored by a match-update or a merge has Euclidean norm
\* 1: it is the L2-normalized mean of its inputs, never the zero vector, also
\* after a merge of identities whose centroids cancel out.
StoredCentroidsHaveNormOne ==
    \A f \in DOMAIN faces :
        faces[f].embedding # NoBytes =>
            LET v == bytes_to_embedding(faces[f].embedding)
            IN  Dot(v, v) = One

\* the members of the groups of two faces or more that a pass has formed
GroupMembers(groups) ==
    UNION { Range(groups[k].fids) : k \in { n \in 1 .. Len(groups) :
                                              groups[n].label # -1 /\ Len(groups[n].fids) > 1 } }

\* C22: an identity is deleted only as a source of a merge.  No run of
\* _process_photo deletes an identity; a merge deletes none but the existing
\* sources it names, never its target, and none at all if its target is
\* missing; a recluster pass deletes none but members of the groups it merges,
\* never the target of a group.  Identities are not deleted for the number of
\* their links.
DeletedOnlyAsMergeSource ==
    /\ \A photo_id \in PhotoIds : \A in \in PhotoInputs(photo_id, StoreDetections) :
          \A out \in process_photo(faces, photo_faces, photo_id, in.cond, in.detected, in.rows) :
              DOMAIN faces \subseteq DOMAIN out.faces
    /\ \A target \in RequestIds, sources \in SourceLists :
          LET after == merge_faces(faces, photo_faces, target, sources)
              gone == (DOMAIN faces) \ (DOMAIN after.faces)
          IN  IF target \in DOMAIN faces
              THEN gone = (Range(sources) \cap DOMAIN faces) \ {target}
              ELSE gone = {}
    /\ \A rows \in RowOrders, sklearn \in BOOLEAN :
          LET after == recluster_faces(faces, photo_faces, rows, sklearn)
              gone == (DOMAIN faces) \ (DOMAIN after.faces)
          IN  /\ gone \subseteq GroupMembers(after.groups)
              /\ gone \cap Range(after.targets) = {}

\* C22's case: three identities, one of which a merge can delete as the source
\* it names next to its own target, and two of which a pass can group
MergeAndPassCanDelete ==
    /\ Cardinality(DOMAIN faces) = 3
    /\ \E target \in DOMAIN faces, source \in DOMAIN faces :
          /\ target # source
          /\ DOMAIN merge_faces(faces, photo_faces, target, << target, source >>).faces
                = (DOMAIN faces) \ {source}
    /\ \E rows \in RowOrders :
          Cardinality(DOMAIN recluster_faces(faces, photo_faces, rows, TRUE).faces) = 2

\* a thread of the worker is alive
LoopAlive == \E t \in Threads : pc[t] # "idle"

\* the step is a start() whose two load() calls have succeeded
SuccessfulStart ==
    LET after == start(TRUE, TRUE)
    IN  /\ running' = after.running
        /\ pc' = after.pc
        /\ detector_loaded' /\ embedder_loaded'
        /\ pc' # pc

\* C23: the worker goes from stopped to running only by a start() with both
\* models loaded, and whenever the worker is running or a thread of it is
\* alive, the detector and the embedder are both available.
RunningOnlyWithModels ==
    /\ [](running \/ LoopAlive => available)
    /\ [][(~running /\ running') => SuccessfulStart]_vars

\* C23's case: a worker stopped and started again: it is running, on two
\* threads, with both models loaded
RestartedWithModels ==
    /\ running /\ available
    /\ \A t \in Threads : pc[t] # "idle"

\* every thread of the worker has left _run
LoopExited == \A t \in Threads : pc[t] = "idle"

\* C24: once stop() has been called the worker loop exits, after the photo it
\* is on or the queue poll it is in; stop() returns from its join, and can
\* return whatever the thread is doing, also on a photo that has not finished.
StoppingTerminates ==
    /\ ~running ~> LoopExited
    /\ joining ~> ~joining
    /\ [](joining => ENABLED JoinReturn)

\* C24's case: stop() has been called while the thread is on a photo, and
\* waits in its join
StopCalledDuringPhoto ==
    /\ ~running /\ joining
    /\ pc[1] = "process"

\* the detected faces for which the embedder has returned an embedding
Embedded(detected) == SelectSeq(detected, LAMBDA e : e # NoBytes)

\* C25: a detected face for which the embedder returns None gets no identity,
\* no count and no link, and every other detected face of the photo is matched
\* or created and linked: the run adds one link for each embedded face, on the
\* identity it was matched to or created as, and leaves the identities as the
\* run on the embedded faces alone leaves them.
NoneEmbeddingSkipsFace ==
    \A photo_id \in PhotoIds : \A in \in PhotoInputs(photo_id, StoreDetections) :
        \A out \in process_photo(faces, photo_faces, photo_id, in.cond, in.detected, in.rows) :
            out.outcome = "committed" =>
                LET added == SubSeq(out.photo_faces, Len(photo_faces) + 1, Len(out.photo_faces))
                    embedded == { k \in 1 .. Len(in.detected) : in.detected[k] # NoBytes }
                IN  /\ Len(added) = Cardinality(embedded)
                    /\ Len(out.results) = Len(in.detected)
                    /\ \A k \in (1 .. Len(in.detected)) \ embedded : out.results[k].kind = "none"
                    /\ \A k \in embedded :
                          /\ out.results[k].kind \in { "matched", "created" }
                          /\ \E i \in 1 .. Len(added) :
                                added[i] = PhotoFaceRow(photo_id, out.results[k].face_id, k)
                    /\ \E alone \in process_photo(faces, photo_faces, photo_id, "ok",
                                                  Embedded(in.detected), in.rows) :
                          alone.faces = out.faces

\* C25's case: a photo whose first detected face had no embedding and whose
\* second face was linked, next to a photo with two linked faces
SecondFaceLinkedAlone ==
    \E p, q \in PhotoIds :
        /\ { photo_faces[i].bbox : i \in { j \in 1 .. Len(photo_faces) :
                                             photo_faces[j].photo_id = p } } = { 2 }
        /\ { photo_faces[i].bbox : i \in { j \in 1 .. Len(photo_faces) :
                                             photo_faces[j].photo_id = q } } = { 1, 2 }

\* the user's context was last active more than the session timeout ago
Inactive(user_id) ==
    /\ user_id \in DOMAIN dialog.sessions
    /\ dialog.sessions[user_id].last_active_time # 0
    /\ dialog.now - dialog.sessions[user_id].last_active_time > SESSION_TIMEOUT_SECONDS

\* C26: for a user whose context has been inactive for more than the session
\* timeout, get_context gives a fresh context (turn_count 0, nothing kept) and
\* apply_context returns the slots it was given, for every intent and slots.
ExpiredContextIsFresh ==
    \A user_id \in Users :
        Inactive(user_id) =>
            /\ get_context(dialog.sessions, dialog.now, user_id)[user_id] = NewContext
            /\ \A intent \in Intents, slots \in Slots :
                  LET applied == apply_context(dialog.sessions, dialog.now, user_id, intent, slots)
                  IN  /\ applied.returns = slots
                      /\ applied.sessions[user_id].turn_count = 0

\* C26's case: a context with a person filter and photos from earlier turns,
\* inactive for more than the timeout: a follow-up that it would have enriched
\* a second before the timeout ran out
ExpiredContextWithFilters ==
    \E user_id \in Users :
        /\ Inactive(user_id)
        /\ dialog.sessions[user_id].turn_count = MaxTurns
        /\ "person" \in DOMAIN dialog.sessions[user_id].accumulated_filters
        /\ dialog.sessions[user_id].last_photos # << >>
        /\ apply_context(dialog.sessions,
                         dialog.sessions[user_id].last_active_time + SESSION_TIMEOUT_SECONDS,
                         user_id, "SEARCH_DATE", [date_expr |-> "today"]).returns
             = [person |-> "mom", date_expr |-> "today"]

\* C27: in every group of two faces or more that a recluster pass merges, one
\* member survives, the others are deleted, and the survivor is a member whose
\* photo_count before the pass was the highest of the group.
ReclusterKeepsLargest ==
    \A rows \in RowOrders, sklearn \in BOOLEAN :
        LET after == recluster_faces(faces, photo_faces, rows, sklearn)
        IN  \A k \in 1 .. Len(after.groups) :
                LET members == Range(after.groups[k].fids)
                IN  (after.groups[k].label # -1 /\ Len(after.groups[k].fids) > 1) =>
                        \E target \in members :
                            /\ members \cap DOMAIN after.faces = { target }
                            /\ \A f \in members :
                                  faces[f].photo_count <= faces[target].photo_count

\* C27's case: a pass that selects a face of one link ahead of a face of two
\* links, groups the two, and keeps the second
GroupLedBySmaller ==
    \E rows \in RowOrders :
        /\ Len(rows) = 2
        /\ faces[rows[1]].photo_count = 1
        /\ faces[rows[2]].photo_count = 2
        /\ DOMAIN recluster_faces(faces, photo_faces, rows, TRUE).faces = { rows[2] }

\* the faces table with the embedding of the identities of bare taken out: rows
\* as the schema allows them (Face.embedding is optional)
WithoutEmbedding(F, bare) ==
    [ f \in DOMAIN F |->
        IF f \in bare THEN FaceRow(F[f].name, NoBytes, F[f].photo_count) ELSE F[f] ]

\* C28: a recluster pass leaves every identity outside the groups of two faces
\* or more (alone in its group, under the noise label, or without a stored
\* embedding) as it was: it exists, with the same centroid, photo_count, label
\* and links; an identity without an embedding is in no group.
ReclusterLeavesSingletons ==
    \A bare \in { b \in SUBSET DOMAIN faces : Cardinality(b) <= 1 } :
        LET F == WithoutEmbedding(faces, bare)
        IN  \A rows \in Orders(WithEmbedding(F)), sklearn \in BOOLEAN :
                LET after == recluster_faces(F, photo_faces, rows, sklearn)
                    merged == GroupMembers(after.groups)
                IN  /\ bare \cap merged = {}
                    /\ Len(after.photo_faces) = Len(photo_faces)
                    /\ \A f \in (DOMAIN F) \ merged :
                          /\ f \in DOMAIN after.faces
                          /\ after.faces[f] = F[f]
                          /\ \A i \in 1 .. Len(photo_faces) :
                                (photo_faces[i].face_id = f \/ after.photo_faces[i].face_id = f)
                                    => after.photo_faces[i] = photo_faces[i]

\* C28's case: three identities with links, two of which a pass merges while
\* the third is alone in its group
PassMergesBesideSingleton ==
    /\ Cardinality(DOMAIN faces) = 3
    /\ \E rows \in RowOrders :
          LET after == recluster_faces(faces, photo_faces, rows, TRUE)
          IN  /\ Cardinality(DOMAIN after.faces) = 2
              /\ \E f \in (DOMAIN faces) \ GroupMembers(after.groups) :
                    faces[f].photo_count >= 1

\* the photo is new and the embedder returns two embeddings for it, the second
\* within the match threshold of the first
TwoFacesWithinMatch(photo_id, detected) ==
    /\ ~Linked(photo_id) /\ Len(detected) = 2
    /\ detected[1] # NoBytes /\ detected[2] # NoBytes
    /\ ~BeyondMatch(detected[1], detected[2])

\* the run has made one identity of the two faces of the photo: the identity
\* created for the first, with photo_count 2 and the two links of the photo
BothFacesOnNovel(out, photo_id) ==
    LET L == Len(photo_faces)
        id == out.results[1].face_id
    IN  /\ out.results[2] = [kind |-> "matched", face_id |-> id]
        /\ DOMAIN out.faces = (DOMAIN faces) \cup {id}
        /\ out.faces[id].photo_count = 2
        /\ Len(out.photo_faces) = L + 2
        /\ \A i \in L + 1 .. L + 2 :
              out.photo_faces[i].photo_id = photo_id /\ out.photo_faces[i].face_id = id

\* every identity known when the run starts is farther from the second face
\* than the first face is
NovelIsNearest(detected) ==
    \A f \in DOMAIN faces :
        faces[f].embedding # NoBytes =>
            Dot(Centroid(f), detected[2]) < Dot(detected[1], detected[2])

IdsNeverReused ==
    \A target \in DOMAIN faces, sources \in SourceLists :
        LET merged == merge_faces(faces, photo_faces, target, sources)
        IN  \A photo_id \in PhotoIds, detected \in StoreDetections,
               rows \in Orders(WithEmbedding(merged.faces)) :
                \A out \in process_photo(merged.faces, merged.photo_faces,
                                         photo_id, "ok", detected, rows) :
                    out.outcome = "committed" =>
                        \A k \in 1 .. Len(out.results) :
                            out.results[k].kind = "created" =>
                                out.results[k].face_id \notin DOMAIN faces

\* the identities of F that are in G too have in G the label they have in F
SameLabels(F, G) ==
    \A f \in (DOMAIN F) \cap (DOMAIN G) : G[f].name = F[f].name

\* C31: processing a photo, a merge and a recluster pass leave the label of
\* every identity that exists after them as it was, and an identity that the
\* processing creates has no label (of the operations on the tables, that
\* leaves tag_face to write one).
PipelineKeepsLabels ==
    /\ \A target \in RequestIds, sources \in SourceLists :
          SameLabels(faces, merge_faces(faces, photo_faces, target, sources).faces)
    /\ \A rows \in RowOrders, sklearn \in BOOLEAN :
          SameLabels(faces, recluster_faces(faces, photo_faces, rows, sklearn).faces)
    /\ \A photo_id \in PhotoIds :
          \A in \in PhotoInputs(photo_id, PipelineDetections) :
              \A out \in process_photo(faces, photo_faces, photo_id,
                                       in.cond, in.detected, in.rows) :
                  /\ SameLabels(faces, out.faces)
                  /\ \A f \in (DOMAIN out.faces) \ DOMAIN faces : out.faces[f].name = NULL

\* C31's case: a labelled identity that a photo can match, a merge can take
\* as its target with a source beside it, and a pass can merge with another
LabelledAmongOthers ==
    \E A \in DOMAIN faces, B \in DOMAIN faces :
        /\ A # B /\ faces[A].name # NULL
        /\ merge_faces(faces, photo_faces, A, << B >>).merged >= 1
        /\ \E rows \in RowOrders :
              Cardinality(DOMAIN recluster_faces(faces, photo_faces, rows, TRUE).faces)
                  < Cardinality(DOMAIN faces)
        /\ \E photo_id \in PhotoIds :
            \E in \in PhotoInputs(photo_id, PipelineDetections) :
              \E out \in process_photo(faces, photo_faces, photo_id,
                                       in.cond, in.detected, in.rows) :
                  /\ out.outcome = "committed"
                  /\ out.faces[A].photo_count > faces[A].photo_count

\* C32 as stated: every face that detect returns has a confidence of at least
\* 0.7 and bbox_x, bbox_y, bbox_w and bbox_h in [0,1], whatever boxes the
\* model has put out.
DetectedFacesInRange ==
    lookup.state = "detected" =>
        \A i \in 1 .. Len(lookup.faces) :
            LET face == lookup.faces[i]
            IN  /\ face.confidence >= CONFIDENCE_THRESHOLD
                /\ face.bbox_x \in 0 .. CoordUnit
                /\ face.bbox_y \in 0 .. CoordUnit
                /\ face.bbox_w \in 0 .. CoordUnit
                /\ face.bbox_h \in 0 .. CoordUnit

\* C33 as stated: after any sequence of start() and stop() calls at most one
\* worker thread is alive, and no two photos are being processed at the same
\* time.
SingleConsumer ==
    /\ Cardinality({ t \in Threads : pc[t] # "idle" }) <= 1
    /\ Cardinality(Processing) <= 1

\* the run has made every result of its faces persistent: an identity for
\* each face created, a count above the old one for each identity matched,
\* and a link of the photo for each face with an embedding, in their order
AllResultsPersist(out, photo_id) ==
    LET L == Len(photo_faces)
        linked == SelectSeq(out.results, LAMBDA r : r.kind # "none")
    IN  /\ Len(out.photo_faces) = L + Len(linked)
        /\ \A i \in 1 .. L : out.photo_faces[i] = photo_faces[i]
        /\ \A k \in 1 .. Len(linked) :
              /\ out.photo_faces[L + k].photo_id = photo_id
              /\ linked[k].face_id \in DOMAIN out.faces
              /\ linked[k].kind = "created" =>
                    /\ linked[k].face_id \notin DOMAIN faces
                    /\ out.photo_faces[L + k].face_id = linked[k].face_id
              /\ linked[k].kind = "matched" /\ linked[k].face_id \in DOMAIN faces =>
                    out.faces[linked[k].face_id].photo_count
                        > faces[linked[k].face_id].photo_count

\* C34: a run of _process_photo either commits, and then the identities, the
\* counts and the links of all its faces are in the tables, or it ends
\* without a commit, and then the tables are as they were before the run.
PhotoResultsAllOrNothing ==
    \A photo_id \in PhotoIds :
        \A in \in PhotoInputs(photo_id, StoreDetections) :
            \A out \in process_photo(faces, photo_faces, photo_id,
                                     in.cond, in.detected, in.rows) :
                IF out.outcome = "committed"
                THEN AllResultsPersist(out, photo_id)
                ELSE out.faces = faces /\ out.photo_faces = photo_faces

\* C34's case: identities are stored, and a run fails at its second face, after the identity of
\* its first face has been created and flushed, and a run on the same input
\* that commits
RunFailsAtSecondFace ==
    /\ DOMAIN faces # {}
    /\ \E photo_id \in PhotoIds :
          \E in \in PhotoInputs(photo_id, StoreDetections) :
              LET outs == process_photo(faces, photo_faces, photo_id,
                                        in.cond, in.detected, in.rows)
              IN  /\ \E out \in outs :
                        /\ out.outcome = "failed"
                        /\ Len(out.results) = 1 /\ out.results[1].kind = "created"
                  /\ \E out \in outs :
                        out.outcome = "committed" /\ Len(out.results) = 2

\* the faces the session of a run holds: those its select has loaded, in the
\* run that is followed, and the stored ones in a run that starts now
RunView == IF sessions.run.state = "open" THEN sessions.run.view ELSE faces

\* the links that the select of the run has found
RunLinks == IF sessions.run.state = "open" THEN sessions.run.links ELSE photo_faces

\* the photos the run can be about
RunPhotos ==
    IF sessions.run.state = "open" THEN { sessions.run.photo_id }
    ELSE { p \in PhotoIds : ~HasLinks(photo_faces, p) }

\* C35: the links that a run of _process_photo creates are, in the order of
\* the faces with an embedding, one for each of them, of the photo, and with
\* the identity that this face was matched to or that was created for it;
\* also when a merge has deleted the row of a matched identity since the run
\* has read it.
LinkReferencesOwnIdentity ==
    \A photo_id \in RunPhotos, detected \in StoreDetections \ { << >> },
       rows \in Orders(WithEmbedding(RunView)) :
        \A out \in process_photo(RunView, RunLinks, photo_id, "ok", detected, rows) :
            LET L == Len(RunLinks)
                linked == SelectSeq(out.results, LAMBDA r : r.kind # "none")
            IN  out.outcome = "committed" =>
                    /\ Len(out.photo_faces) = L + Len(linked)
                    /\ \A k \in 1 .. Len(linked) :
                          /\ out.photo_faces[L + k].photo_id = photo_id
                          /\ out.photo_faces[L + k].face_id = linked[k].face_id

\* C35's case: a run has read the known faces, a merge has since deleted one
\* of them, and the second face of the photo matches the deleted one after
\* the first face has been given another identity
MatchedIdentityDeletedMeanwhile ==
    /\ sessions.run.state = "open"
    /\ \E gone \in (DOMAIN sessions.run.view) \ DOMAIN faces :
          \E detected \in StoreDetections, rows \in Orders(WithEmbedding(RunView)) :
              \E out \in process_photo(RunView, RunLinks, sessions.run.photo_id,
                                       "ok", detected, rows) :
                  /\ out.outcome = "committed" /\ Len(out.results) = 2
                  /\ out.results[1].kind # "none" /\ out.results[1].face_id # gone
                  /\ out.results[2] = [kind |-> "matched", face_id |-> gone]

\* the links of M are those of L, each with the photo and the box it has in L
SameLinksButIdentity(L, M) ==
    /\ Len(M) = Len(L)
    /\ \A i \in 1 .. Len(L) : [M[i] EXCEPT !.face_id = L[i].face_id] = L[i]

\* C36: a merge and a recluster pass leave the number of links as it is, and
\* every link with its photo and its box: they change identity references
\* only.
MergesConserveLinks ==
    /\ \A target \in RequestIds, sources \in SourceLists :
          SameLinksButIdentity(photo_faces,
                               merge_faces(faces, photo_faces, target, sources).photo_faces)
    /\ \A rows \in RowOrders, sklearn \in BOOLEAN :
          SameLinksButIdentity(photo_faces,
                               recluster_faces(faces, photo_faces, rows, sklearn).photo_faces)

\* C36's case: links of two photos, some of which a merge moves, and some of
\* which a recluster pass moves
MergeAndPassMoveLinks ==
    /\ \E i \in 1 .. Len(photo_faces), j \in 1 .. Len(photo_faces) :
          photo_faces[i].photo_id # photo_faces[j].photo_id
    /\ \E target \in DOMAIN faces, sources \in SourceLists :
          merge_faces(faces, photo_faces, target, sources).photo_faces # photo_faces
    /\ \E rows \in RowOrders :
          recluster_faces(faces, photo_faces, rows, TRUE).photo_faces # photo_faces

\* a thread takes a photo from the queue in this step
TakesPhoto == \E t \in Threads : pc[t] = "get" /\ pc'[t] = "process"

\* C37 as stated: once stop() has been called the worker begins at most one
\* further photo: a photo taken from the queue while the flag is cleared is
\* the last one, no thread is left in queue.get to take another, and the
\* queue of a worker whose loop has exited loses no photo.
AtMostOneFurtherPhoto ==
    [][ /\ (~running /\ TakesPhoto) => \A u \in Threads : pc'[u] # "get"
        /\ (~running /\ LoopExited /\ ~running') =>
              \E photo_ids \in Batches : queue' = queue \o photo_ids ]_vars

\* C38 as stated: when an identity of a group that a recluster pass merges
\* carries a label before the pass, the identity of the group that is left
\* after the pass carries a label.
ReclusterKeepsGroupLabel ==
    \A rows \in RowOrders, sklearn \in BOOLEAN :
        LET after == recluster_faces(faces, photo_faces, rows, sklearn)
        IN  \A k \in 1 .. Len(after.groups) :
                LET members == Range(after.groups[k].fids)
                IN  ( /\ after.groups[k].label # -1 /\ Len(after.groups[k].fids) > 1
                      /\ \E f \in members : faces[f].name # NULL ) =>
                        \A target \in members \cap DOMAIN after.faces :
                            after.faces[target].name # NULL

\* C39: while the worker runs, a photo id at any place of the queue is taken
\* from the queue by the thread, unless stop() is called first, and a photo
\* taken is processed to its end, whatever its outcome and that of the photos
\* before it; and enqueue can always be called and returns (as far as the
\* bound that the model puts on the queue).
BacklogProgress ==
    /\ \A n \in 1 .. MaxQueue, p \in PhotoIds :
          (running /\ Len(queue) >= n /\ queue[n] = p)
              ~> (~running \/ \E t \in Threads : taken[t] = p)
    /\ \A t \in Threads : (pc[t] = "process") ~> (pc[t] = "check")
    /\ [](Len(queue) < MaxQueue => ENABLED Enqueue)

\* C39's case: the worker runs and is on a photo whose processing can fail,
\* with another photo queued behind it and room in the queue
PhotoBehindOneThatCanFail ==
    /\ running /\ pc[1] = "process"
    /\ Len(queue) = 1 /\ queue[1] # taken[1]
    /\ faces # << >>
    /\ CanFail(taken[1])

====
